---- MODULE Spec2Model ----
(***************************************************************************)
(* Model of the PixelSlice image pipeline: processImage and stitchImages   *)
(* (src/services/imageService.ts) and the orchestration of App.tsx.        *)
(***************************************************************************)
EXTENDS Integers, Sequences, FiniteSets, TLC

(***************************************************************************)
(* JavaScript numbers.  The heights of the pipeline are computed in IEEE   *)
(* 754 double precision: a quotient of two integers is rounded to 53       *)
(* significant bits before it is multiplied or divided again, and only     *)
(* then Math.round is applied.  A positive double is [q, e]: q six limbs   *)
(* of nine bits, least significant first, holding an even number Q with    *)
(* 2^53 <= Q < 2^54 (the 53-bit mantissa followed by a zero bit), and the  *)
(* value is Q * 2^e.                                                       *)
(***************************************************************************)
LimbBase == 512

Pow2(k) == 2 ^ k

RECURSIVE IntLimbs(_)
\* the limbs of a natural number, least significant first (<<>> for 0)
IntLimbs(n) == IF n = 0 THEN <<>> ELSE <<n % LimbBase>> \o IntLimbs(n \div LimbBase)

RECURSIVE LimbsInt(_)
\* the natural number of a limb sequence, least significant first
LimbsInt(p) == IF p = <<>> THEN 0 ELSE p[1] + LimbBase * LimbsInt(Tail(p))

RECURSIVE Zeros(_)
Zeros(n) == IF n <= 0 THEN <<>> ELSE <<0>> \o Zeros(n - 1)

LimbAt(p, i) == IF i >= 1 /\ i <= Len(p) THEN p[i] ELSE 0

\* number of bits of a positive integer below 2^30
IntBitLength(v) == CHOOSE k \in 1..30 : Pow2(k - 1) <= v /\ v < Pow2(k)

\* number of bits of a positive limb sequence
BitLength(p) ==
  LET top == CHOOSE i \in 1..Len(p) : p[i] # 0 /\ \A j \in (i + 1)..Len(p) : p[j] = 0
  IN  9 * (top - 1) + IntBitLength(p[top])

\* floor(p / 2^s), as six limbs
ShiftRight(p, s) ==
  LET sq == s \div 9
      sr == s % 9
      T(i) == (LimbAt(p, i + sq) \div Pow2(sr)) + (LimbAt(p, i + sq + 1) % Pow2(sr)) * Pow2(9 - sr)
  IN  <<T(1), T(2), T(3), T(4), T(5), T(6)>>

\* p mod 2^s = 0
LowBitsZero(p, s) ==
  /\ \A i \in 1..(s \div 9) : LimbAt(p, i) = 0
  /\ LimbAt(p, (s \div 9) + 1) % Pow2(s % 9) = 0

\* t + 1 on six limbs (t < 2^54 - 1)
LimbsInc(t) ==
  LET C(i) == \A j \in 1..(i - 1) : t[j] = LimbBase - 1
      U(i) == IF C(i) THEN (t[i] + 1) % LimbBase ELSE t[i]
  IN  <<U(1), U(2), U(3), U(4), U(5), U(6)>>

\* round-to-nearest, ties-to-even, of p * 2^e (plus a positive rest below
\* 2^e when sticky) to a double; p >= 2^53
RoundToDouble(p, sticky, e) ==
  LET shift  == BitLength(p) - 54
      t      == ShiftRight(p, shift)
      rest   == sticky \/ ~LowBitsZero(p, shift)
      guard  == t[1] % 2
      odd    == (t[1] \div 2) % 2
      up     == guard = 1 /\ (rest \/ odd = 1)
      allOne == \A i \in 1..6 : t[i] = LimbBase - 1
  IN  IF guard = 0 THEN [q |-> t, e |-> e + shift]
      ELSE IF ~up THEN [q |-> <<t[1] - 1, t[2], t[3], t[4], t[5], t[6]>>, e |-> e + shift]
      ELSE IF allOne THEN [q |-> <<0, 0, 0, 0, 0, 256>>, e |-> e + shift + 1]
      ELSE [q |-> LimbsInc(t), e |-> e + shift]

RECURSIVE Normalize(_, _, _)
\* <<n, d, k>> with a/b = (n/d) * 2^k and d <= n < 2d
Normalize(n, d, k) ==
  IF n < d THEN Normalize(2 * n, d, k - 1)
  ELSE IF n >= 2 * d THEN Normalize(n, 2 * d, k + 1)
  ELSE <<n, d, k>>

RECURSIVE QuotientLimbs(_, _, _, _)
\* c further limbs of the quotient r/d (r < d), least significant first in
\* the result, and the remainder left after them
QuotientLimbs(r, d, c, acc) ==
  IF c = 0 THEN [limbs |-> acc, rem |-> r]
  ELSE QuotientLimbs((r * LimbBase) % d, d, c - 1, <<(r * LimbBase) \div d>> \o acc)

\* the double a / b for integers a > 0, b > 0 (below 2^21)
DivInts(a, b) ==
  LET nd == Normalize(a, b, 0)
      q  == QuotientLimbs((nd[1] * 256) % nd[2], nd[2], 5, <<(nd[1] * 256) \div nd[2]>>)
  IN  RoundToDouble(q.limbs, q.rem # 0, nd[3] - 53)

RECURSIVE MulLimbs(_, _, _, _)
\* the limbs of h * p
MulLimbs(p, h, i, carry) ==
  IF i > Len(p) THEN IntLimbs(carry)
  ELSE LET v == h * p[i] + carry
       IN  <<v % LimbBase>> \o MulLimbs(p, h, i + 1, v \div LimbBase)

\* the double h * x for an integer h > 0 (below 2^21) and a double x
MulIntDouble(h, x) == RoundToDouble(MulLimbs(x.q, h, 1, 0), FALSE, x.e)

\* the low n limbs of a are below the low n limbs of b
PrefixLess(a, b, n) ==
  LET diff == {i \in 1..n : a[i] # b[i]}
  IN  /\ diff # {}
      /\ LET top == CHOOSE i \in diff : \A j \in diff : j <= i
         IN  a[top] < b[top]

\* a - b (a >= b) on seven limbs
BigSub(a, b) ==
  LET S(i) == (a[i] - b[i] - (IF PrefixLess(a, b, i - 1) THEN 1 ELSE 0)) % LimbBase
  IN  <<S(1), S(2), S(3), S(4), S(5), S(6), S(7)>>

\* 2 * a on seven limbs (a < 2^62)
BigDouble(a) ==
  LET S(i) == ((2 * a[i]) % LimbBase) + (IF i > 1 THEN a[i - 1] \div 256 ELSE 0)
  IN  <<S(1), S(2), S(3), S(4), S(5), S(6), S(7)>>

BigPad(p) == p \o Zeros(7 - Len(p))

RECURSIVE BigDivBits(_, _, _, _)
\* c further bits of the quotient r/d (r < d) as one number, and the
\* remainder left after them
BigDivBits(r, d, c, acc) ==
  IF c = 0 THEN [digit |-> acc, rem |-> r]
  ELSE LET r2 == BigDouble(r)
       IN  IF PrefixLess(r2, d, 7)
           THEN BigDivBits(r2, d, c - 1, 2 * acc)
           ELSE BigDivBits(BigSub(r2, d), d, c - 1, 2 * acc + 1)

RECURSIVE BigQuotientLimbs(_, _, _, _)
BigQuotientLimbs(r, d, c, acc) ==
  IF c = 0 THEN [limbs |-> acc, rem |-> r]
  ELSE LET step == BigDivBits(r, d, 9, 0)
       IN  BigQuotientLimbs(step.rem, d, c - 1, <<step.digit>> \o acc)

\* the double t / x for an integer t > 0 (below 2^21) and a double x
DivIntDouble(t, x) ==
  LET d     == BigPad(x.q)
      s1    == 54 - IntBitLength(t)
      N(s)  == BigPad(Zeros(s \div 9) \o IntLimbs(t * Pow2(s % 9)))
      s     == IF PrefixLess(N(s1), d, 7) THEN s1 + 1 ELSE s1
      first == BigDivBits(BigSub(N(s), d), d, 8, 1)
      q     == BigQuotientLimbs(first.rem, d, 5, <<first.digit>>)
  IN  RoundToDouble(q.limbs, q.rem # Zeros(7), 0 - 53 - s - x.e)

\* Math.round of a positive double below 2^30: the nearest integer, a tie
\* going up
MathRound(x) ==
  LET f == 0 - x.e
  IN  IF f > 54 THEN 0
      ELSE IF f = 54 THEN 1
      ELSE LimbsInt(ShiftRight(x.q, f)) + (ShiftRight(x.q, f - 1)[1] % 2)

\* the number 0, which is no [q, e] of the positive doubles
Zero == [q |-> <<0, 0, 0, 0, 0, 0>>, e |-> 0]

RECURSIVE AddLimbs(_, _, _, _)
\* the limbs of a + b
AddLimbs(a, b, i, carry) ==
  IF i > Len(a) /\ i > Len(b) THEN IntLimbs(carry)
  ELSE LET v == LimbAt(a, i) + LimbAt(b, i) + carry
       IN  <<v % LimbBase>> \o AddLimbs(a, b, i + 1, v \div LimbBase)

\* the double x + y for doubles x, y >= 0: the exact sum rounded once; an
\* addend below a sixteenth of the last bit of the other changes nothing.
\* The larger one is shifted to the exponent of the smaller one.
AddDoubles(x, y) ==
  IF x = Zero THEN y
  ELSE IF y = Zero THEN x
  ELSE LET hi == IF x.e >= y.e THEN x ELSE y
           lo == IF x.e >= y.e THEN y ELSE x
       IN  IF hi.e - lo.e > 56 THEN hi
           ELSE RoundToDouble(
                  AddLimbs(MulLimbs(Zeros((hi.e - lo.e) \div 9) \o hi.q,
                                    Pow2((hi.e - lo.e) % 9), 1, 0),
                           lo.q, 1, 0),
                  FALSE, lo.e)

\* Math.floor of a positive double below 2^30
MathFloor(x) ==
  LET f == 0 - x.e
  IN  IF f >= 54 THEN 0 ELSE LimbsInt(ShiftRight(x.q, f))

\* the results of Math.ceil: a number, Infinity or NaN
Finite(n) == [kind |-> "number", value |-> n]

Infinity == [kind |-> "Infinity", value |-> 0]

NaN == [kind |-> "NaN", value |-> 0]

\* Math.ceil(x / s) for a double x >= 0 and an integer s.  The quotient is
\* rounded to a double before Math.ceil sees it; it lies on the same side
\* of every integer as the exact quotient (an integer k is a double, and
\* for a double x > k * s the quotient exceeds k by more than half the
\* distance from k to the next double), so the ceiling is that of the exact
\* quotient, which depends on Math.floor(x) and on x being an integer.
\* Division by 0 gives Infinity, and NaN for 0 / 0.
CeilOfQuotient(x, s) ==
  IF s = 0 THEN (IF x = Zero THEN NaN ELSE Infinity)
  ELSE IF x = Zero THEN Finite(0)
  ELSE IF s < 0 THEN Finite(0 - (MathFloor(x) \div (0 - s)))
  ELSE IF (0 - x.e) < 54 /\ LowBitsZero(x.q, 0 - x.e)
    THEN Finite((MathFloor(x) + s - 1) \div s)
  ELSE Finite((MathFloor(x) \div s) + 1)

\* a + b for two results of Math.ceil (none of them is -Infinity)
NumberPlus(a, b) ==
  IF a.kind = "NaN" \/ b.kind = "NaN" THEN NaN
  ELSE IF a.kind = "Infinity" \/ b.kind = "Infinity" THEN Infinity
  ELSE Finite(a.value + b.value)

(***************************************************************************)
(* Bounds of the model.                                                    *)
(***************************************************************************)
MaxTargetWidth == 2
MaxTargetHeight == 4
MaxSliceHeight == 3
MaxDim == 2
MaxSources == 2

\* the slicing loop of a stepwise call is cut off after this many iterations
\* (a loop that does not advance never ends by itself)
MaxIterations == MaxTargetHeight + 2

ExportFormats == {"jpeg", "png"}

ProcessingModes == {"individual", "mosaic"}

\* const [options, setOptions] = useState<ProcessingOptions>({...})
InitialOptions ==
  [mode |-> "individual", targetWidth |-> 0, targetHeight |-> 0, sliceHeight |-> 1200,
   enableSlicing |-> TRUE, keepAspectRatio |-> TRUE, exportFormat |-> "jpeg"]

(***************************************************************************)
(* imageService.ts                                                         *)
(***************************************************************************)
Min(a, b) == IF a < b THEN a ELSE b

Canvas(w, h) == [kind |-> "canvas", width |-> w, height |-> h]
ImageElement(w, h) == [kind |-> "image", width |-> w, height |-> h]
NoCanvas == Canvas(0, 0)

\* CanvasRenderingContext2D.drawImage throws InvalidStateError when its
\* source is a canvas of width or height zero; an HTMLImageElement that has
\* loaded is always usable
DrawImageThrows(element) ==
  element.kind = "canvas" /\ (element.width = 0 \/ element.height = 0)

\* const actualSliceHeight = Math.min(sliceHeight, targetHeight - currentY)
ActualSliceHeight_NoClamp(sliceHeight, targetHeight, currentY) == sliceHeight

ActualSliceHeight(sliceHeight, targetHeight, currentY) ==
  Min(sliceHeight, targetHeight - currentY)

\* while (currentY < targetHeight)
LoopCondition_Inclusive(currentY, targetHeight) == currentY <= targetHeight

LoopCondition(currentY, targetHeight) == currentY < targetHeight

\* the SliceResult pushed when slicing is disabled: the whole resize canvas
FullSlice(options) ==
  [index |-> 0, kind |-> "full", y |-> 0, width |-> options.targetWidth,
   height |-> options.targetHeight, format |-> options.exportFormat]

\* the SliceResult pushed for one band: the source rectangle that was copied
BandSlice(options, index, currentY, actualSliceHeight) ==
  [index |-> index, kind |-> "slice", y |-> currentY, width |-> options.targetWidth,
   height |-> actualSliceHeight, format |-> options.exportFormat]

\* an operation on a canvas of a call: ctx.fillRect(0, 0, width, height),
\* ctx.drawImage onto it, or its toDataURL.  The canvases of processImage are
\* numbered 0 (the resize canvas) and i + 1 (the canvas of band i); the one
\* canvas of stitchImages is 0.
CanvasOp(canvas, op, width, height) ==
  [canvas |-> canvas, op |-> op, width |-> width, height |-> height]

\* if (exportFormat === 'jpeg') { ctx.fillStyle = '#FFFFFF'; ctx.fillRect(0, 0, width, height) }
FillIfJpeg_ResizeOnly(log, exportFormat, canvas, width, height) ==
  IF exportFormat = "jpeg" /\ canvas = 0
    THEN Append(log, CanvasOp(canvas, "fillRect", width, height))
    ELSE log

FillIfJpeg(log, exportFormat, canvas, width, height) ==
  IF exportFormat = "jpeg"
    THEN Append(log, CanvasOp(canvas, "fillRect", width, height))
    ELSE log

\* an activation of processImage before its first statement
ProcessImageCall(imageElement, options) ==
  [pc |-> "start", imageElement |-> imageElement, options |-> options,
   resizeCanvas |-> NoCanvas, currentY |-> 0, index |-> 0,
   slices |-> <<>>, bands |-> <<>>, log |-> <<>>]

IdleCall == [ProcessImageCall(ImageElement(1, 1),
               [targetWidth |-> 0, targetHeight |-> 0, sliceHeight |-> 0,
                enableSlicing |-> FALSE, exportFormat |-> "jpeg"])
             EXCEPT !.pc = "idle"]

\* processImage up to the slicing loop: the resize canvas, its context (ctx is
\* FALSE when getContext('2d') returns null), the draw of the source and the
\* resize-only result
ProcessImageEnter_AlwaysSlice(c, ctx) ==
  LET made   == [c EXCEPT !.resizeCanvas = Canvas(c.options.targetWidth, c.options.targetHeight)]
      filled == FillIfJpeg(c.log, c.options.exportFormat, 0,
                           c.options.targetWidth, c.options.targetHeight)
      drawn  == Append(filled, CanvasOp(0, "drawImage", c.options.targetWidth, c.options.targetHeight))
  IN  IF ~ctx THEN [made EXCEPT !.pc = "threw"]
      ELSE IF DrawImageThrows(c.imageElement) THEN [made EXCEPT !.pc = "threw", !.log = filled]
      ELSE [made EXCEPT !.pc = "loop", !.currentY = 0, !.index = 0, !.log = drawn]

ProcessImageEnter(c, ctx) ==
  LET made   == [c EXCEPT !.resizeCanvas = Canvas(c.options.targetWidth, c.options.targetHeight)]
      filled == FillIfJpeg(c.log, c.options.exportFormat, 0,
                           c.options.targetWidth, c.options.targetHeight)
      drawn  == Append(filled, CanvasOp(0, "drawImage", c.options.targetWidth, c.options.targetHeight))
  IN  IF ~ctx THEN [made EXCEPT !.pc = "threw"]
      ELSE IF DrawImageThrows(c.imageElement) THEN [made EXCEPT !.pc = "threw", !.log = filled]
      ELSE IF ~c.options.enableSlicing
        THEN [made EXCEPT !.pc = "returned", !.slices = <<FullSlice(c.options)>>,
                          !.log = Append(drawn, CanvasOp(0, "toDataURL", c.options.targetWidth,
                                                         c.options.targetHeight))]
      ELSE [made EXCEPT !.pc = "loop", !.currentY = 0, !.index = 0, !.log = drawn]

\* one iteration of the slicing loop; ctx is FALSE when the band canvas gets no
\* context, and then the band is skipped but currentY and index still advance
ProcessImageIterate(c, ctx) ==
  LET h      == ActualSliceHeight(c.options.sliceHeight, c.options.targetHeight, c.currentY)
      band   == [y |-> c.currentY, height |-> h]
      filled == FillIfJpeg(c.log, c.options.exportFormat, c.index + 1, c.options.targetWidth, h)
  IN  IF ctx /\ DrawImageThrows(c.resizeCanvas)
        THEN [c EXCEPT !.pc = "threw", !.bands = Append(@, band), !.log = filled]
      ELSE [c EXCEPT !.bands = Append(@, band),
                     !.slices = IF ctx THEN Append(@, BandSlice(c.options, c.index, c.currentY, h))
                                ELSE @,
                     !.log = IF ctx
                               THEN filled \o <<CanvasOp(c.index + 1, "drawImage", c.options.targetWidth, h),
                                                CanvasOp(c.index + 1, "toDataURL", c.options.targetWidth, h)>>
                               ELSE @,
                     !.currentY = @ + h,
                     !.index = @ + 1]

RECURSIVE RunLoop(_, _)
\* the slicing loop run to its end; nullCtx holds the numbers of the canvases
\* that get no context (0 the resize canvas, i + 1 the canvas of band i).  An
\* iteration that does not move currentY forward repeats for ever ("hung"),
\* unless the draw of a band throws.
RunLoop(c, nullCtx) ==
  IF c.pc # "loop" THEN c
  ELSE IF ~LoopCondition(c.currentY, c.options.targetHeight) THEN [c EXCEPT !.pc = "returned"]
  ELSE IF ActualSliceHeight(c.options.sliceHeight, c.options.targetHeight, c.currentY) <= 0
    THEN IF DrawImageThrows(c.resizeCanvas) THEN [c EXCEPT !.pc = "threw"]
         ELSE [c EXCEPT !.pc = "hung"]
  ELSE RunLoop(ProcessImageIterate(c, (c.index + 1) \notin nullCtx), nullCtx)

\* processImage(imageElement, options) as one synchronous call
ProcessImage(imageElement, options, nullCtx) ==
  RunLoop(ProcessImageEnter(ProcessImageCall(imageElement, options), 0 \notin nullCtx), nullCtx)

\* const scale = targetWidth / img.width;
\* const height = Math.round(img.height * scale)
ScaledHeight_Floor(img, targetWidth) == (img.height * targetWidth) \div img.width

ScaledHeight(img, targetWidth) ==
  IF targetWidth = 0 THEN 0
  ELSE MathRound(MulIntDouble(img.height, DivInts(targetWidth, img.width)))

\* an activation of stitchImages before its first statement
StitchCall(imgs, targetWidth, exportFormat) ==
  [pc |-> "map", images |-> imgs, targetWidth |-> targetWidth,
   exportFormat |-> exportFormat, scaledImages |-> <<>>, totalHeight |-> 0,
   canvas |-> NoCanvas, currentY |-> 0, draws |-> <<>>, log |-> <<>>]

IdleStitch == [StitchCall(<<>>, 0, "jpeg") EXCEPT !.pc = "idle"]

\* one element of images.map(...): the scaled height, added to totalHeight
StitchMapStep(s) ==
  LET img    == s.images[Len(s.scaledImages) + 1]
      height == ScaledHeight(img, s.targetWidth)
  IN  [s EXCEPT !.scaledImages = Append(@, [img |-> img, height |-> height]),
                !.totalHeight = @ + height]

\* the canvas of the stitch and its context
StitchCreateCanvas(s, ctx) ==
  LET made == [s EXCEPT !.canvas = Canvas(s.targetWidth, s.totalHeight)]
  IN  IF ~ctx THEN [made EXCEPT !.pc = "threw"]
      ELSE [made EXCEPT !.pc = "draw", !.currentY = 0,
                        !.log = FillIfJpeg(@, s.exportFormat, 0, s.targetWidth, s.totalHeight)]

\* one element of scaledImages.forEach(...): the draw and the advance of currentY
StitchDrawStep_NoAdvance(s) ==
  LET e == s.scaledImages[Len(s.draws) + 1]
  IN  [s EXCEPT !.draws = Append(@, [img |-> e.img, x |-> 0, y |-> s.currentY,
                                     width |-> s.targetWidth, height |-> e.height]),
                !.log = Append(@, CanvasOp(0, "drawImage", s.targetWidth, e.height))]

StitchDrawStep(s) ==
  LET e == s.scaledImages[Len(s.draws) + 1]
  IN  [s EXCEPT !.draws = Append(@, [img |-> e.img, x |-> 0, y |-> s.currentY,
                                     width |-> s.targetWidth, height |-> e.height]),
                !.log = Append(@, CanvasOp(0, "drawImage", s.targetWidth, e.height)),
                !.currentY = @ + e.height]

RECURSIVE RunStitch(_, _)
RunStitch(s, ctx) ==
  IF s.pc = "map" THEN
    IF Len(s.scaledImages) < Len(s.images) THEN RunStitch(StitchMapStep(s), ctx)
    ELSE RunStitch(StitchCreateCanvas(s, ctx), ctx)
  ELSE IF s.pc = "draw" THEN
    IF Len(s.draws) < Len(s.scaledImages) THEN RunStitch(StitchDrawStep(s), ctx)
    ELSE [s EXCEPT !.pc = "returned"]
  ELSE s

\* stitchImages(images, targetWidth, exportFormat) as one synchronous call
StitchImages(imgs, targetWidth, exportFormat, ctx) ==
  RunStitch(StitchCall(imgs, targetWidth, exportFormat), ctx)


(***************************************************************************)
(* The size label of a slice: getBase64Size and formatBytes                *)
(***************************************************************************)
\* the largest number of bytes an encoded canvas has here
MaxBytes == 40

\* a string is the sequence of its characters
DigitChars == <<"0", "1", "2", "3", "4", "5", "6", "7", "8", "9">>

RECURSIVE Decimal(_)
\* the decimal digits of n >= 0
Decimal(n) ==
  IF n < 10 THEN <<DigitChars[n + 1]>>
  ELSE Append(Decimal(n \div 10), DigitChars[(n % 10) + 1])

DataScheme == <<"d", "a", "t", "a", ":">>

MediaType(exportFormat) ==
  <<"i", "m", "a", "g", "e", "/">>
  \o (IF exportFormat = "jpeg" THEN <<"j", "p", "e", "g">> ELSE <<"p", "n", "g">>)
  \o <<";", "b", "a", "s", "e", "6", "4">>

\* the base64 text of n bytes: 4 characters for every 3 bytes begun, the last
\* group padded with '=' ("A" stands for any character of the alphabet)
Base64(n) ==
  LET groups  == (n + 2) \div 3
      padding == (3 - (n % 3)) % 3
  IN  [i \in 1..(4 * groups) |-> IF i > 4 * groups - padding THEN "=" ELSE "A"]

\* canvas.toDataURL(mimeType, quality) when the encoded image has n bytes;
\* a canvas without pixels (n = 0) gives "data:,"
ToDataURL(exportFormat, n) ==
  IF n = 0 THEN DataScheme \o <<",">>
  ELSE DataScheme \o MediaType(exportFormat) \o <<",">> \o Base64(n)

\* the positions of ch in text
Positions(text, ch) == {i \in 1..Len(text) : text[i] = ch}

Least(S) == CHOOSE i \in S : \A j \in S : i <= j

\* base64String.split(',')[1]: the text between the first comma and the
\* next one (or the end); <<>> stands for undefined and for '' alike
SplitSecond(text) ==
  LET commas == Positions(text, ",")
  IN  IF commas = {} THEN <<>>
      ELSE LET first == Least(commas)
                rest  == commas \ {first}
           IN  SubSeq(text, first + 1, IF rest = {} THEN Len(text) ELSE Least(rest) - 1)

\* getBase64Size(base64String)
GetBase64Size_WholeString(base64String) == (Len(base64String) * 3) \div 4

GetBase64Size(base64String) ==
  IF SplitSecond(base64String) = <<>> THEN 0
  ELSE (Len(SplitSecond(base64String)) * 3) \div 4

\* formatBytes(bytes) for bytes < 1024: Math.floor(Math.log(bytes) /
\* Math.log(1024)) is 0, and parseFloat((bytes / 1).toFixed(2)) is bytes
FormatBytes(bytes) ==
  IF bytes = 0 THEN <<"0", " ", "B", "y", "t", "e", "s">>
  ELSE Decimal(bytes) \o <<" ", "B", "y", "t", "e", "s">>

\* one canvas being encoded and measured: const dataUrl = canvas.toDataURL(...);
\* const sizeInBytes = getBase64Size(dataUrl); sizeLabel: formatBytes(sizeInBytes)
SizeCall(exportFormat, n) ==
  [pc |-> "encoded", bytes |-> n, dataUrl |-> ToDataURL(exportFormat, n),
   sizeInBytes |-> 0, sizeLabel |-> <<>>]

IdleSize == [SizeCall("jpeg", 0) EXCEPT !.pc = "idle"]

(***************************************************************************)
(* State.  procCall and stitchCall are the activations of processImage and *)
(* stitchImages that are followed statement by statement, sizeCall is the  *)
(* size estimate of one encoded canvas.  The other                         *)
(* variables are the state of the App component: its React state (images,  *)
(* options, isBatchProcessing, isAnalyzing), the file loads and the batch  *)
(* that are in flight, and the history kept for the properties.            *)
(***************************************************************************)
VARIABLES procCall, stitchCall, sizeCall,
          images, options, isBatchProcessing, isAnalyzing,
          uploads, batch, calls, hung, nextId, ops, batchCount, advice, clock,
          previewData

serviceVars == <<procCall, stitchCall, sizeCall>>

appVars == <<images, options, isBatchProcessing, isAnalyzing,
             uploads, batch, calls, hung, nextId, ops, batchCount, advice, clock,
          previewData>>

vars == <<procCall, stitchCall, sizeCall, images, options, isBatchProcessing, isAnalyzing,
          uploads, batch, calls, hung, nextId, ops, batchCount, advice, clock,
          previewData>>

\* const [previewData, setPreviewData] = useState(null)
NoPreview == [kind |-> "none"]

\* no answer of the advisor yet
NoAdvice == [kind |-> "none"]

\* the state of App after construction (App.tsx, useState initial values)
NoBatch ==
  [mode |-> "individual", options |-> InitialOptions, snapshot |-> <<>>,
   loading |-> {}, outcomes |-> <<>>, analyzing |-> FALSE]

InitApp ==
  /\ images = <<>>
  /\ options = InitialOptions
  /\ isBatchProcessing = FALSE
  /\ isAnalyzing = FALSE
  /\ uploads = {}
  /\ batch = NoBatch
  /\ calls = {}
  /\ hung = FALSE
  /\ nextId = 1
  /\ ops = 0
  /\ batchCount = 0
  /\ advice = NoAdvice
  /\ previewData = NoPreview
  /\ clock = 0

\* the arguments the calls are started with
OptionValues ==
  [targetWidth : 0..MaxTargetWidth, targetHeight : (-1)..MaxTargetHeight,
   sliceHeight : (-1)..MaxSliceHeight, enableSlicing : BOOLEAN,
   exportFormat : ExportFormats]

SourceElements == {ImageElement(1, 1), Canvas(1, 1), Canvas(1, 0)}

SmallImages == {ImageElement(w, h) : w \in 1..MaxDim, h \in 1..MaxDim}

SampleImages ==
  {ImageElement(800, 1600), ImageElement(1200, 1800), ImageElement(14, 21), ImageElement(3, 2)}

SampleWidths == {1000, 17}

RECURSIVE SeqsUpTo(_, _)
\* the sequences over S of length at most n
SeqsUpTo(S, n) ==
  IF n = 0 THEN {<<>>}
  ELSE LET shorter == SeqsUpTo(S, n - 1)
       IN  shorter \cup {Append(q, x) : q \in shorter, x \in S}

StitchInputs ==
  ({<<q, w>> : q \in SeqsUpTo(SmallImages, MaxSources), w \in 0..MaxTargetWidth})
  \cup ({<<q, w>> : q \in SeqsUpTo(SampleImages, MaxSources), w \in SampleWidths})

InitImage ==
  /\ InitApp
  /\ sizeCall = IdleSize
  /\ \/ /\ \E e \in SourceElements, o \in OptionValues : procCall = ProcessImageCall(e, o)
        /\ stitchCall = IdleStitch
     \/ /\ \E in \in StitchInputs, f \in ExportFormats : stitchCall = StitchCall(in[1], in[2], f)
        /\ procCall = IdleCall

\* processImage, lines 26-64
ProcessImageBegin ==
  /\ procCall.pc = "start"
  /\ \E ctx \in BOOLEAN : procCall' = ProcessImageEnter(procCall, ctx)
  /\ UNCHANGED <<stitchCall, sizeCall, appVars>>

\* processImage, lines 66-103: one iteration of the loop
ProcessImageLoop ==
  /\ procCall.pc = "loop"
  /\ LoopCondition(procCall.currentY, procCall.options.targetHeight)
  /\ procCall.index < MaxIterations
  /\ \E ctx \in BOOLEAN : procCall' = ProcessImageIterate(procCall, ctx)
  /\ UNCHANGED <<stitchCall, sizeCall, appVars>>

\* processImage, line 105
ProcessImageReturn ==
  /\ procCall.pc = "loop"
  /\ ~LoopCondition(procCall.currentY, procCall.options.targetHeight)
  /\ procCall' = [procCall EXCEPT !.pc = "returned"]
  /\ UNCHANGED <<stitchCall, sizeCall, appVars>>

\* stitchImages, lines 114-119: one element of the map
StitchMap ==
  /\ stitchCall.pc = "map"
  /\ Len(stitchCall.scaledImages) < Len(stitchCall.images)
  /\ stitchCall' = StitchMapStep(stitchCall)
  /\ UNCHANGED <<procCall, sizeCall, appVars>>

\* stitchImages, lines 121-137
StitchCanvas ==
  /\ stitchCall.pc = "map"
  /\ Len(stitchCall.scaledImages) = Len(stitchCall.images)
  /\ \E ctx \in BOOLEAN : stitchCall' = StitchCreateCanvas(stitchCall, ctx)
  /\ UNCHANGED <<procCall, sizeCall, appVars>>

\* stitchImages, lines 138-141: one element of the forEach
StitchDraw ==
  /\ stitchCall.pc = "draw"
  /\ Len(stitchCall.draws) < Len(stitchCall.scaledImages)
  /\ stitchCall' = StitchDrawStep(stitchCall)
  /\ UNCHANGED <<procCall, sizeCall, appVars>>

\* stitchImages, line 143
StitchReturn ==
  /\ stitchCall.pc = "draw"
  /\ Len(stitchCall.draws) = Len(stitchCall.scaledImages)
  /\ stitchCall' = [stitchCall EXCEPT !.pc = "returned"]
  /\ UNCHANGED <<procCall, sizeCall, appVars>>

NextImage ==
  \/ ProcessImageBegin
  \/ ProcessImageLoop
  \/ ProcessImageReturn
  \/ StitchMap
  \/ StitchCanvas
  \/ StitchDraw
  \/ StitchReturn

SpecImage == InitImage /\ [][NextImage]_vars

(***************************************************************************)
(* Bounds of the App model.                                                *)
(***************************************************************************)
\* the largest number typed into a number field or suggested by the advisor
MaxInput == 2
\* the files picked in a session
MaxUploads == 2
\* the calls of handleStartProcessing in a session
MaxBatches == 2
\* the user operations of a session: every file picked and every click or
\* edit counts one
MaxOps == 4
\* the last millisecond the clock of the session shows (the first one is 0)
MaxClock == 1

(***************************************************************************)
(* NumberInput                                                             *)
(***************************************************************************)
IsDigit(ch) == \E i \in 1..10 : DigitChars[i] = ch

DigitValue(ch) == (CHOOSE i \in 1..10 : DigitChars[i] = ch) - 1

\* the text a user types for the integer n
TextOf(n) == IF n < 0 THEN <<"-">> \o Decimal(0 - n) ELSE Decimal(n)

\* the contents of a number field: empty, or an integer of lo..hi
TypedTexts(lo, hi) == {<<>>} \cup {TextOf(n) : n \in lo..hi}

RECURSIVE ParseDigits(_, _)
\* the value of the leading digits of text, after the value acc
ParseDigits(text, acc) ==
  IF text = <<>> \/ ~IsDigit(text[1]) THEN acc
  ELSE ParseDigits(Tail(text), 10 * acc + DigitValue(text[1]))

\* parseInt(text): <<n>> for a number, <<>> for NaN
ParseInt(text) ==
  LET signed == text # <<>> /\ text[1] \in {"-", "+"}
      body   == IF signed THEN Tail(text) ELSE text
      value  == ParseDigits(body, 0)
  IN  IF body = <<>> \/ ~IsDigit(body[1]) THEN <<>>
      ELSE IF signed /\ text[1] = "-" THEN <<0 - value>>
      ELSE <<value>>

\* onChange(parseInt(e.target.value) || 0): NaN and 0 give 0; the min
\* attribute of the field does not restrict what is passed on
NumberInputValue(text) ==
  LET n == ParseInt(text)
  IN  IF n = <<>> THEN 0 ELSE n[1]

(***************************************************************************)
(* App.tsx                                                                 *)
(***************************************************************************)
\* the files of the session: decoded sizes of the images a user picks
FileImages == {ImageElement(1, 2), ImageElement(3, 1)}

\* aspectRatio: img.width / img.height
AspectRatio(img) == DivInts(img.width, img.height)

\* Math.round(newWidth / firstImg.aspectRatio), for newWidth >= 0
ComputeHeightForWidth(newWidth, img) ==
  IF newWidth = 0 THEN 0
  ELSE MathRound(DivIntDouble(newWidth, AspectRatio(img)))

\* Math.round(newHeight * firstImg.aspectRatio), for newHeight >= 0
ComputeWidthForHeight(newHeight, img) ==
  IF newHeight = 0 THEN 0
  ELSE MathRound(MulIntDouble(newHeight, AspectRatio(img)))

\* the values of the two roundings for the sizes of FileImages, computed once
RoundingKeys ==
  {<<n, img.width, img.height>> : n \in 0..(MaxInput + 1), img \in FileImages}

HeightForWidthTable ==
  [k \in RoundingKeys |-> ComputeHeightForWidth(k[1], ImageElement(k[2], k[3]))] @@ <<>>

WidthForHeightTable ==
  [k \in RoundingKeys |-> ComputeWidthForHeight(k[1], ImageElement(k[2], k[3]))] @@ <<>>

HeightForWidth(newWidth, img) ==
  LET k == <<newWidth, img.width, img.height>>
  IN  IF k \in RoundingKeys THEN HeightForWidthTable[k]
      ELSE ComputeHeightForWidth(newWidth, img)

WidthForHeight(newHeight, img) ==
  LET k == <<newHeight, img.width, img.height>>
  IN  IF k \in RoundingKeys THEN WidthForHeightTable[k]
      ELSE ComputeWidthForHeight(newHeight, img)

\* an entry of images: ImageState (id, originalUrl, width, height, status,
\* slices)
ImageState(id, originalUrl, width, height, status, slices) ==
  [id |-> id, originalUrl |-> originalUrl, width |-> width, height |-> height,
   status |-> status, slices |-> slices]

\* URL.createObjectURL(file): the url of the file picked as number file
ObjectUrl(file) == [kind |-> "blob", file |-> file]

\* canvas.toDataURL(`image/${exportFormat}`, 1.0): the whole canvas encoded
DataUrl(canvas, exportFormat) ==
  [kind |-> "data", format |-> exportFormat, width |-> canvas.width, height |-> canvas.height]

Ids(imgs) == {imgs[i].id : i \in 1..Len(imgs)}

Lookup(imgs, id) == imgs[CHOOSE i \in 1..Len(imgs) : imgs[i].id = id]

\* prev.filter(img => img.id !== id)
RECURSIVE RemoveId(_, _)
RemoveId(imgs, id) ==
  IF imgs = <<>> THEN <<>>
  ELSE IF imgs[1].id = id THEN RemoveId(Tail(imgs), id)
  ELSE <<imgs[1]>> \o RemoveId(Tail(imgs), id)

\* prev.map(img => img.id === id ? { ...img, status: 'processing' } : img),
\* once per image of the batch
MarkProcessing_Skip(imgs, ids) == imgs

MarkProcessing(imgs, ids) ==
  [i \in 1..Len(imgs) |->
     IF imgs[i].id \in ids THEN [imgs[i] EXCEPT !.status = "processing"] ELSE imgs[i]]

\* prev.map(img => img.id === id ? { ...img, status: 'completed', slices: results } : img)
\* and prev.map(img => img.id === id ? { ...img, status: 'error' } : img)
ApplyOutcome_All(imgs, id, outcome) ==
  [i \in 1..Len(imgs) |->
     IF outcome.status = "completed"
       THEN [imgs[i] EXCEPT !.status = "completed", !.slices = outcome.slices]
       ELSE [imgs[i] EXCEPT !.status = "error"]]

\* the same update written from the list the batch was started with, as
\* setImages(images.map(...)) would do
ApplyOutcome_Stale(imgs, id, outcome) ==
  [i \in 1..Len(batch.snapshot) |->
     IF batch.snapshot[i].id # id THEN batch.snapshot[i]
     ELSE IF outcome.status = "completed"
       THEN [batch.snapshot[i] EXCEPT !.status = "completed", !.slices = outcome.slices]
       ELSE [batch.snapshot[i] EXCEPT !.status = "error"]]

ApplyOutcome(imgs, id, outcome) ==
  [i \in 1..Len(imgs) |->
     IF imgs[i].id # id THEN imgs[i]
     ELSE IF outcome.status = "completed"
       THEN [imgs[i] EXCEPT !.status = "completed", !.slices = outcome.slices]
       ELSE [imgs[i] EXCEPT !.status = "error"]]

\* Math.max(...images.map(img => img.width))
MaxWidth(imgs) ==
  CHOOSE w \in {imgs[i].width : i \in 1..Len(imgs)} :
    \A i \in 1..Len(imgs) : imgs[i].width <= w

\* updateWidth(newWidth) and updateHeight(newHeight): the options they set
UpdateWidthOptions(opts, imgs, newWidth) ==
  IF opts.keepAspectRatio /\ Len(imgs) > 0
    THEN [opts EXCEPT !.targetWidth = newWidth,
                      !.targetHeight = HeightForWidth(newWidth, imgs[1])]
    ELSE [opts EXCEPT !.targetWidth = newWidth]

UpdateHeightOptions(opts, imgs, newHeight) ==
  IF opts.keepAspectRatio /\ Len(imgs) > 0
    THEN [opts EXCEPT !.targetHeight = newHeight,
                      !.targetWidth = WidthForHeight(newHeight, imgs[1])]
    ELSE [opts EXCEPT !.targetHeight = newHeight]

\* processSingle: const currentOptions = { ...options }; with keepAspectRatio
\* its targetHeight is Math.round(options.targetWidth / imgState.aspectRatio)
CurrentOptions_Shared(opts, imgState) == opts

CurrentOptions(opts, imgState) ==
  IF opts.keepAspectRatio
    THEN [opts EXCEPT !.targetHeight = HeightForWidth(opts.targetWidth, imgState)]
    ELSE opts

\* the canvases of one pipeline that get no 2D context: none, the resize
\* canvas, or the canvas of the first band
NullContexts == {{}, {0}, {1}}

\* the record of a call made by handleStartProcessing
ProcessImageArgs(source, o) ==
  [fn |-> "processImage", source |-> source, targetWidth |-> o.targetWidth,
   targetHeight |-> o.targetHeight, sliceHeight |-> o.sliceHeight,
   enableSlicing |-> o.enableSlicing, exportFormat |-> o.exportFormat]

StitchImagesArgs(targetWidth) == [fn |-> "stitchImages", targetWidth |-> targetWidth]

\* what a pipeline makes of an activation of processImage that has ended
PipelineStatus(call) ==
  IF call.pc = "returned" THEN "completed"
  ELSE IF call.pc = "hung" THEN "hung"
  ELSE "error"

\* processSingle from its call of processImage on
ProcessSingleCall(current, call) ==
  [called |-> TRUE, args |-> ProcessImageArgs(call.imageElement, current),
   status |-> PipelineStatus(call), slices |-> call.slices]

ProcessSingleLoaded(current, imgState, nullCtx) ==
  ProcessSingleCall(current,
    ProcessImage(ImageElement(imgState.width, imgState.height), current, nullCtx))

\* processSingle after the image has loaded (ok) or failed to load: the
\* call of processImage, if any, and the outcome for the image
SinglePipeline(opts, imgState, ok, nullCtx) ==
  IF ~ok THEN [called |-> FALSE, status |-> "error", slices |-> <<>>]
  ELSE ProcessSingleLoaded(CurrentOptions(opts, imgState), imgState, nullCtx)

\* const loadedImages = await loadAllImages(images.map(img => img.originalUrl))
LoadedImages(snapshot) ==
  [i \in 1..Len(snapshot) |-> ImageElement(snapshot[i].width, snapshot[i].height)]

\* const mosaicOptions = { ...options, targetHeight: stitchedCanvas.height }
MosaicOptions(opts, stitchedCanvas) ==
  [opts EXCEPT !.targetHeight = stitchedCanvas.height]

\* the mosaic branch from its call of processImage on
MosaicCall(mosaicOptions, stitchedCanvas, call) ==
  [calls |-> {StitchImagesArgs(mosaicOptions.targetWidth), ProcessImageArgs(stitchedCanvas, mosaicOptions)},
   status |-> PipelineStatus(call), canvas |-> stitchedCanvas, slices |-> call.slices]

\* the mosaic branch from the end of stitchImages on
MosaicStitched(opts, stitched, nullCtx) ==
  IF stitched.pc # "returned"
    THEN [calls |-> {StitchImagesArgs(opts.targetWidth)}, status |-> "error"]
  ELSE MosaicCall(MosaicOptions(opts, stitched.canvas), stitched.canvas,
         ProcessImage(stitched.canvas, MosaicOptions(opts, stitched.canvas), nullCtx))

\* the mosaic branch of handleStartProcessing after loadAllImages settled
MosaicPipeline(opts, snapshot, ok, ctx, nullCtx) ==
  IF ~ok THEN [calls |-> {}, status |-> "error"]
  ELSE MosaicStitched(opts,
         StitchImages(LoadedImages(snapshot), opts.targetWidth, opts.exportFormat, ctx),
         nullCtx)

\* options.targetWidth / img.aspectRatio, for targetWidth >= 0
WidthOverAspectRatio(targetWidth, img) ==
  IF targetWidth = 0 THEN Zero ELSE DivIntDouble(targetWidth, AspectRatio(img))

RECURSIVE CombinedHeight(_, _, _)
\* images.forEach(img => { combinedHeight += img.height * (options.targetWidth / img.width) })
\* from the sum acc on, for targetWidth >= 0
CombinedHeight(imgs, targetWidth, acc) ==
  IF imgs = <<>> THEN acc
  ELSE CombinedHeight(Tail(imgs), targetWidth,
         AddDoubles(acc, IF targetWidth = 0 THEN Zero
                         ELSE MulIntDouble(imgs[1].height, DivInts(targetWidth, imgs[1].width))))

RECURSIVE SlicesOfEach(_, _, _)
\* images.reduce((acc, img) => acc + Math.ceil((options.keepAspectRatio
\*   ? (options.targetWidth / img.aspectRatio) : options.targetHeight) / options.sliceHeight), 0)
SlicesOfEach(imgs, opts, acc) ==
  IF imgs = <<>> THEN acc
  ELSE SlicesOfEach(Tail(imgs), opts,
         NumberPlus(acc,
           CeilOfQuotient(IF opts.keepAspectRatio
                            THEN WidthOverAspectRatio(opts.targetWidth, imgs[1])
                            ELSE IF opts.targetHeight = 0 THEN Zero
                            ELSE DivInts(opts.targetHeight, 1),
                          opts.sliceHeight)))

\* totalSlices
TotalSlices(imgs, opts) ==
  IF opts.mode = "mosaic"
    THEN IF Len(imgs) = 0 THEN Finite(0)
         ELSE IF opts.enableSlicing
           THEN CeilOfQuotient(CombinedHeight(imgs, opts.targetWidth, Zero), opts.sliceHeight)
           ELSE Finite(1)
  ELSE IF ~opts.enableSlicing THEN Finite(Len(imgs))
  ELSE SlicesOfEach(imgs, opts, Finite(0))

\* combinedMetrics.slices, the count shown as the predicted output
CombinedMetricsSlices(imgs, opts) ==
  IF Len(imgs) = 0 THEN Finite(0)
  ELSE IF opts.mode = "mosaic"
    THEN IF opts.enableSlicing
           THEN CeilOfQuotient(CombinedHeight(imgs, opts.targetWidth, Zero), opts.sliceHeight)
           ELSE Finite(1)
  ELSE TotalSlices(imgs, opts)

\* setPreviewData({ imageId: img.id, sliceIndex: i })
PreviewData(imageId, sliceIndex) ==
  [kind |-> "open", imageId |-> imageId, sliceIndex |-> sliceIndex]

\* currentPreviewSlice is not null: the preview is open on an image of the list
PreviewShown(pd, imgs) == pd.kind = "open" /\ pd.imageId \in Ids(imgs)

\* img.slices[previewData.sliceIndex] is a slice (not undefined)
PreviewSliceDefined(pd, imgs) ==
  pd.sliceIndex \in 0..(Len(Lookup(imgs, pd.imageId).slices) - 1)

\* the render of the preview reads currentPreviewSlice.slice.url: with slice
\* undefined it throws, and React unmounts the component
RenderThrows(pd, imgs) == PreviewShown(pd, imgs) /\ ~PreviewSliceDefined(pd, imgs)

\* no handler runs any more: processImage does not return, or the page is gone
Halted == hung \/ RenderThrows(previewData, images)

\* handleFileUpload: one Image per file starts to load; its onload handler
\* keeps the images and options of the render the files were chosen in.  The
\* id of the future ImageState (Math.random()) is drawn here.
HandleFileUpload ==
  /\ ~Halted
  /\ \E files \in SeqsUpTo(FileImages, MaxUploads) :
       /\ files # <<>>
       /\ nextId + Len(files) - 1 <= MaxUploads
       /\ ops + Len(files) <= MaxOps
       /\ ops' = ops + Len(files)
       /\ uploads' = uploads \cup
            {[id |-> nextId + i - 1, width |-> files[i].width, height |-> files[i].height,
              first |-> (Len(images) = 0 /\ options.targetWidth = 0)] : i \in 1..Len(files)}
       /\ nextId' = nextId + Len(files)
  /\ UNCHANGED <<images, options, isBatchProcessing, isAnalyzing, batch, calls, hung, advice, previewData, clock, batchCount, serviceVars>>

\* img.onload of handleFileUpload
ImageOnload ==
  /\ ~Halted
  /\ \E u \in uploads :
       /\ uploads' = uploads \ {u}
       /\ images' = Append(images, ImageState(u.id, ObjectUrl(u.id), u.width, u.height, "pending", <<>>))
       /\ options' = IF u.first
                       THEN [options EXCEPT !.targetWidth = u.width, !.targetHeight = u.height]
                       ELSE options
  /\ UNCHANGED <<isBatchProcessing, isAnalyzing, batch, calls, hung, advice, previewData, clock, nextId,
                 ops, batchCount, serviceVars>>

\* removeImage(id)
RemoveImage ==
  /\ ~Halted
  /\ ops < MaxOps
  /\ ops' = ops + 1
  /\ \E id \in Ids(images) :
       /\ images' = RemoveId(images, id)
       /\ previewData' = IF previewData.kind = "open" /\ previewData.imageId = id
                           THEN NoPreview ELSE previewData
  /\ UNCHANGED <<options, isBatchProcessing, isAnalyzing, uploads, batch, calls, hung, advice, clock,
                 nextId, batchCount, serviceVars>>

\* clearAll; its button is shown when images.length > 0
ClearAll ==
  /\ ~Halted
  /\ ops < MaxOps
  /\ ops' = ops + 1
  /\ Len(images) > 0
  /\ images' = <<>>
  /\ previewData' = NoPreview
  /\ UNCHANGED <<options, isBatchProcessing, isAnalyzing, uploads, batch, calls, hung, advice, clock,
                 nextId, batchCount, serviceVars>>

\* an edit of the options: setOptions as every control of the options panel
\* calls it
EditOptions(newOptions) ==
  /\ ~Halted
  /\ ops < MaxOps
  /\ options' = newOptions
  /\ ops' = ops + 1
  /\ UNCHANGED <<images, isBatchProcessing, isAnalyzing, uploads, batch, calls, hung, advice, previewData, clock,
                 nextId, batchCount, serviceVars>>

\* useMaxOriginalWidth; its button is disabled when images.length === 0
UseMaxOriginalWidth ==
  /\ Len(images) > 0
  /\ EditOptions(UpdateWidthOptions(options, images, MaxWidth(images)))

\* the width field: NumberInput onChange={updateWidth}
UpdateWidth ==
  /\ Len(images) > 0
  /\ \E text \in TypedTexts(0, MaxInput) :
       EditOptions(UpdateWidthOptions(options, images, NumberInputValue(text)))

\* the height field: NumberInput onChange={updateHeight}, disabled when
\* images.length === 0 || options.keepAspectRatio || options.mode === 'mosaic'
UpdateHeight ==
  /\ Len(images) > 0
  /\ ~options.keepAspectRatio
  /\ options.mode # "mosaic"
  /\ \E text \in TypedTexts(0, MaxInput) :
       EditOptions(UpdateHeightOptions(options, images, NumberInputValue(text)))

\* the slice height field, shown when options.enableSlicing
SetSliceHeight ==
  /\ Len(images) > 0
  /\ options.enableSlicing
  /\ \E text \in TypedTexts(-1, MaxInput) :
       EditOptions([options EXCEPT !.sliceHeight = NumberInputValue(text)])

\* the mode buttons
SetMode ==
  \E m \in ProcessingModes : m # options.mode /\ EditOptions([options EXCEPT !.mode = m])

\* the aspect-lock checkbox, disabled in mosaic mode
SetKeepAspectRatio ==
  /\ options.mode # "mosaic"
  /\ EditOptions([options EXCEPT !.keepAspectRatio = ~@])

\* the slicing switch
ToggleSlicing == EditOptions([options EXCEPT !.enableSlicing = ~@])

\* the format buttons
SetExportFormat ==
  \E f \in ExportFormats :
    f # options.exportFormat /\ EditOptions([options EXCEPT !.exportFormat = f])

\* handleStartProcessing: if (images.length === 0) return
StartReturnsEarly_Never(imgs) == FALSE

StartReturnsEarly(imgs) == Len(imgs) = 0

\* handleStartProcessing up to its first await: nothing for an empty list;
\* otherwise the batch keeps the images and options of the call, and in
\* individual mode every processSingle has marked its image 'processing'
\* before the first load settles.  batchCount counts the calls of the handler.
HandleStartProcessing ==
  /\ ~Halted
  /\ ops < MaxOps
  /\ ops' = ops + 1
  /\ ~isBatchProcessing
  /\ batchCount < MaxBatches
  /\ batchCount' = batchCount + 1
  /\ IF StartReturnsEarly(images)
       THEN UNCHANGED <<images, isBatchProcessing, batch, calls>>
       ELSE /\ isBatchProcessing' = TRUE
            /\ batch' = [mode |-> options.mode, options |-> options, snapshot |-> images,
                         loading |-> Ids(images), outcomes |-> <<>>, analyzing |-> isAnalyzing]
            /\ images' = IF options.mode = "mosaic" THEN images
                         ELSE MarkProcessing(images, Ids(images))
            /\ calls' = {}
  /\ UNCHANGED <<options, isAnalyzing, uploads, hung, nextId, advice, previewData, clock, serviceVars>>

\* the id processImage gives a SliceResult when Date.now() is now:
\* `full-${Date.now()}` without slicing, `slice-${Date.now()}-${index}` with it
SliceId(slice, now) ==
  IF slice.kind = "full" THEN <<"full", now>> ELSE <<"slice", now, slice.index>>

\* the SliceResults of a call of processImage that ran in millisecond now
SliceResults(slices, now) ==
  [i \in 1..Len(slices) |->
     [id |-> SliceId(slices[i], now), index |-> slices[i].index, kind |-> slices[i].kind,
      y |-> slices[i].y, width |-> slices[i].width, height |-> slices[i].height,
      format |-> slices[i].format]]

\* what a pipeline that ended in millisecond now leaves for its image
Outcome(run, now) ==
  IF run.status = "completed"
    THEN [status |-> "completed", slices |-> SliceResults(run.slices, now)]
    ELSE [status |-> run.status, slices |-> <<>>]

\* await Promise.all(images.map(processSingle)) is still pending when the
\* pipeline of image id ends: another pipeline of the batch has not ended
PromiseAllPending_Race(loading, id) == FALSE

PromiseAllPending(loading, id) == loading # {id}

\* the options a pipeline of batch b works with: those of the render the
\* start button was clicked in, which the closures of handleStartProcessing
\* keep, whatever the options have become (current)
BatchOptions_Live(b, current) == current

BatchOptions(b, current) == b.options

\* the end of processSingle for image id with the outcome run: the update of
\* images; the last pipeline to end also ends Promise.all, and
\* setIsBatchProcessing(false) follows
ProcessSingleEnd(id, now, run) ==
  /\ calls' = IF run.called THEN {run.args} ELSE {}
  /\ IF run.status = "hung"
       THEN /\ hung' = TRUE
            /\ UNCHANGED <<images, batch, isBatchProcessing, clock>>
       ELSE /\ images' = ApplyOutcome(images, id, Outcome(run, now))
            /\ batch' = [batch EXCEPT !.loading = @ \ {id},
                                      !.outcomes = (id :> Outcome(run, now)) @@ @]
            /\ clock' = IF run.status = "completed" THEN now ELSE clock
            /\ isBatchProcessing' = PromiseAllPending(batch.loading, id)
            /\ UNCHANGED hung

\* processSingle from the settling of loadImage to its end
ProcessSingleSettle ==
  /\ ~Halted
  /\ isBatchProcessing
  /\ batch.mode = "individual"
  /\ \E id \in batch.loading, ok \in BOOLEAN, nullCtx \in NullContexts, now \in clock..MaxClock :
       ProcessSingleEnd(id, now, SinglePipeline(BatchOptions(batch, options), Lookup(batch.snapshot, id), ok, nullCtx))
  /\ UNCHANGED <<options, isAnalyzing, uploads, nextId, ops, batchCount, advice, previewData, serviceVars>>

\* setImages([mosaicResult]): the list after a mosaic batch that succeeded
MosaicResultList_Append(prev, mosaicResult) == Append(prev, mosaicResult)

MosaicResultList(prev, mosaicResult) == <<mosaicResult>>

\* the end of the mosaic branch with the outcome run: on success the list
\* becomes the one composite image, whose id 'mosaic-result-' + Date.now() is
\* the id of no file (a negative number here); setIsBatchProcessing(false)
\* follows
MosaicEnd(now, run) ==
  /\ calls' = run.calls
  /\ IF run.status = "hung"
       THEN /\ hung' = TRUE
            /\ UNCHANGED <<images, batch, isBatchProcessing, clock>>
       ELSE /\ images' = IF run.status = "completed"
                           THEN MosaicResultList(images,
                                  ImageState(0 - batchCount,
                                             DataUrl(run.canvas, batch.options.exportFormat),
                                             run.canvas.width, run.canvas.height, "completed",
                                             SliceResults(run.slices, now)))
                           ELSE images
            /\ clock' = IF run.status = "completed" THEN now ELSE clock
            /\ batch' = [batch EXCEPT !.loading = {},
                                      !.outcomes = <<[status |-> run.status]>>]
            /\ isBatchProcessing' = FALSE
            /\ UNCHANGED hung

\* the mosaic branch from the settling of loadAllImages to the end of
\* handleStartProcessing
MosaicSettle ==
  /\ ~Halted
  /\ isBatchProcessing
  /\ batch.mode = "mosaic"
  /\ \E ok \in BOOLEAN, ctx \in BOOLEAN, nullCtx \in NullContexts, now \in clock..MaxClock :
       MosaicEnd(now, MosaicPipeline(BatchOptions(batch, options), batch.snapshot, ok, ctx, nullCtx))
  /\ UNCHANGED <<options, isAnalyzing, uploads, nextId, ops, batchCount, advice, previewData, serviceVars>>

\* handleAiAnalyze up to its first await; its button is shown when
\* options.enableSlicing and disabled when isAnalyzing || images.length === 0
HandleAiAnalyze ==
  /\ ~Halted
  /\ options.enableSlicing
  /\ Len(images) > 0
  /\ ~isAnalyzing
  /\ ops < MaxOps
  /\ ops' = ops + 1
  /\ isAnalyzing' = TRUE
  /\ UNCHANGED <<images, options, isBatchProcessing, uploads, batch, calls, hung, advice, previewData, clock,
                 nextId, batchCount, serviceVars>>

\* what analyzeImageSlicing can give: it throws, or it returns the parsed
\* JSON of the response, which can be null, an object without suggestedHeight
\* ("empty") or hold any suggestedHeight
AdvisorResults ==
  {[kind |-> "throw"], [kind |-> "null"], [kind |-> "empty"]}
  \cup {[kind |-> "result", suggestedHeight |-> n] : n \in (-1)..MaxInput}

\* handleAiAnalyze from the answer of the advisor to its end
AnalyzeSettle ==
  /\ ~Halted
  /\ isAnalyzing
  /\ \E result \in AdvisorResults :
       /\ options' = IF result.kind = "result" /\ result.suggestedHeight # 0
                       THEN [options EXCEPT !.sliceHeight = result.suggestedHeight]
                       ELSE options
       /\ advice' = result
  /\ isAnalyzing' = FALSE
  /\ UNCHANGED <<images, isBatchProcessing, uploads, batch, calls, hung, clock, previewData,
                 nextId, ops, batchCount, serviceVars>>

\* a click on a slice thumbnail; the open preview covers the thumbnails
OpenPreview ==
  /\ ~Halted
  /\ ~PreviewShown(previewData, images)
  /\ \E i \in 1..Len(images) : \E k \in 1..Len(images[i].slices) :
       previewData' = PreviewData(images[i].id, k - 1)
  /\ UNCHANGED <<images, options, isBatchProcessing, isAnalyzing, uploads, batch, calls, hung,
                 nextId, ops, batchCount, advice, clock, serviceVars>>

\* (previewData.sliceIndex + direction + img.slices.length) % img.slices.length
NextIndex(sliceIndex, direction, length) == (sliceIndex + direction + length) % length

\* navigatePreview(direction); its buttons are disabled when the image has
\* at most one slice
NavigatePreview ==
  /\ ~Halted
  /\ PreviewShown(previewData, images)
  /\ Len(Lookup(images, previewData.imageId).slices) > 1
  /\ \E direction \in {-1, 1} :
       previewData' = [previewData EXCEPT !.sliceIndex =
                         NextIndex(@, direction, Len(Lookup(images, previewData.imageId).slices))]
  /\ UNCHANGED <<images, options, isBatchProcessing, isAnalyzing, uploads, batch, calls, hung,
                 nextId, ops, batchCount, advice, clock, serviceVars>>

\* a click on the backdrop or on the close button: setPreviewData(null)
ClosePreview ==
  /\ ~Halted
  /\ PreviewShown(previewData, images)
  /\ previewData' = NoPreview
  /\ UNCHANGED <<images, options, isBatchProcessing, isAnalyzing, uploads, batch, calls, hung,
                 nextId, ops, batchCount, advice, clock, serviceVars>>

Init ==
  /\ InitApp
  /\ procCall = IdleCall
  /\ stitchCall = IdleStitch
  /\ sizeCall = IdleSize

Next ==
  \/ HandleFileUpload
  \/ ImageOnload
  \/ RemoveImage
  \/ ClearAll
  \/ UseMaxOriginalWidth
  \/ UpdateWidth
  \/ UpdateHeight
  \/ SetSliceHeight
  \/ SetMode
  \/ SetKeepAspectRatio
  \/ ToggleSlicing
  \/ SetExportFormat
  \/ HandleStartProcessing
  \/ ProcessSingleSettle
  \/ MosaicSettle
  \/ HandleAiAnalyze
  \/ AnalyzeSettle
  \/ OpenPreview
  \/ NavigatePreview
  \/ ClosePreview

Spec == Init /\ [][Next]_vars

(***************************************************************************)
(* Properties of processImage                                              *)
(***************************************************************************)
RECURSIVE SumHeights(_)
SumHeights(q) == IF q = <<>> THEN 0 ELSE q[1].height + SumHeights(Tail(q))

\* ceil(a / b) for integers a >= 0, b > 0
CeilDiv(a, b) == (a + b - 1) \div b

Slicing(c) ==
  /\ c.options.enableSlicing
  /\ c.options.targetHeight > 0
  /\ c.options.sliceHeight > 0

Consecutive(bands) ==
  /\ bands # <<>> => bands[1].y = 0
  /\ \A i \in 1..(Len(bands) - 1) : bands[i + 1].y = bands[i].y + bands[i].height

\* C1: with slicing enabled and positive integer targetHeight and
\* sliceHeight, the bands cut by processImage are consecutive from y = 0,
\* each starting where the previous one ended, and when the call returns
\* their heights sum to exactly targetHeight.
C1_BandsPartition ==
  Slicing(procCall) =>
    /\ Consecutive(procCall.bands)
    /\ procCall.pc # "threw" => procCall.currentY = SumHeights(procCall.bands)
    /\ procCall.pc = "returned" => SumHeights(procCall.bands) = procCall.options.targetHeight

C1_Witness ==
  /\ Slicing(procCall)
  /\ procCall.pc = "returned"
  /\ Len(procCall.bands) = 2
  /\ Len(procCall.slices) = 2
  /\ procCall.bands[2].height < procCall.options.sliceHeight

Indices(slices) == [i \in 1..Len(slices) |-> slices[i].index]

\* C2: when processImage returns, the indices of the returned SliceResults
\* are 0, 1, ..., n-1 in list order, n = ceil(targetHeight / sliceHeight) with
\* slicing enabled and n = 1 with slicing disabled, and the i-th result is
\* the i-th band from the top.
C2_ContiguousIndices ==
  procCall.pc = "returned" =>
    /\ ~procCall.options.enableSlicing => Indices(procCall.slices) = <<0>>
    /\ Slicing(procCall) =>
         /\ Len(procCall.slices) = CeilDiv(procCall.options.targetHeight, procCall.options.sliceHeight)
         /\ \A i \in 1..Len(procCall.slices) :
              /\ procCall.slices[i].index = i - 1
              /\ procCall.slices[i].y = procCall.bands[i].y
              /\ procCall.slices[i].height = procCall.bands[i].height

\* C3: with slicing enabled and positive integer targetHeight and
\* sliceHeight, every band has a height between 1 and sliceHeight, every band
\* but the last has height sliceHeight, and on return there are
\* n = ceil(targetHeight / sliceHeight) bands, the last of height
\* targetHeight - (n-1) * sliceHeight: no trailing empty band when
\* targetHeight is a multiple of sliceHeight, one band of height targetHeight
\* when sliceHeight exceeds targetHeight.
C3_BandHeights ==
  Slicing(procCall) =>
    LET bands == procCall.bands
        th    == procCall.options.targetHeight
        sh    == procCall.options.sliceHeight
        n     == CeilDiv(th, sh)
    IN  /\ \A i \in 1..Len(bands) : 1 <= bands[i].height /\ bands[i].height <= sh
        /\ \A i \in 1..(Len(bands) - 1) : bands[i].height = sh
        /\ procCall.pc = "returned" =>
             /\ Len(bands) = n
             /\ bands[n].height = th - (n - 1) * sh
             /\ sh > th => bands = <<[y |-> 0, height |-> th]>>

C3_Witness ==
  /\ Slicing(procCall)
  /\ procCall.pc = "returned"
  /\ procCall.options.targetHeight = 2 * procCall.options.sliceHeight
  /\ Len(procCall.bands) = 2

\* C4: with slicing disabled processImage returns exactly one SliceResult,
\* of index 0, that covers the whole targetWidth x targetHeight buffer, for
\* every sliceHeight (also 0, negative, or above targetHeight), and the
\* slicing loop is never entered.
C4_ResizeOnly ==
  ~procCall.options.enableSlicing =>
    /\ procCall.pc # "loop"
    /\ procCall.bands = <<>>
    /\ procCall.pc = "returned" =>
         /\ Len(procCall.slices) = 1
         /\ procCall.slices[1].index = 0
         /\ procCall.slices[1].y = 0
         /\ procCall.slices[1].width = procCall.options.targetWidth
         /\ procCall.slices[1].height = procCall.options.targetHeight

C4_Witness ==
  /\ ~procCall.options.enableSlicing
  /\ procCall.pc = "returned"
  /\ procCall.options.sliceHeight <= 0
  /\ procCall.options.targetHeight > 0

InvalidOptions(o) == o.targetWidth <= 0 \/ o.targetHeight <= 0 \/ o.sliceHeight <= 0

\* C5: a call of processImage (slicing enabled) with a non-positive
\* targetWidth, targetHeight or sliceHeight yields the empty slice list: it
\* never holds a slice.
C5_EmptyOnInvalidOptions ==
  (procCall.pc # "idle" /\ procCall.options.enableSlicing /\ InvalidOptions(procCall.options))
    => procCall.slices = <<>>


(***************************************************************************)
(* Properties of stitchImages                                              *)
(***************************************************************************)
\* round(n / d) of the exact quotient, a tie going up (d > 0)
RoundHalfUp(n, d) == (2 * n + d) \div (2 * d)

RECURSIVE SumRounded(_, _)
\* sum over the sources of round(height * targetWidth / width)
SumRounded(imgs, targetWidth) ==
  IF imgs = <<>> THEN 0
  ELSE RoundHalfUp(imgs[1].height * targetWidth, imgs[1].width)
       + SumRounded(Tail(imgs), targetWidth)

\* t is an integer nearest to n / d: |t - n/d| <= 1/2
Nearest(t, n, d) == 2 * t * d - d <= 2 * n /\ 2 * n <= 2 * t * d + d

\* C7 as stated: the returned canvas has width targetWidth and height
\* sum of round(source.height * targetWidth / source.width).
C7_HeightIsSumOfExactRounds ==
  (stitchCall.pc = "returned" /\ stitchCall.targetWidth > 0) =>
    /\ stitchCall.canvas.width = stitchCall.targetWidth
    /\ stitchCall.canvas.height = SumRounded(stitchCall.images, stitchCall.targetWidth)

\* C7 (amended): the returned canvas has width targetWidth and its height is
\* the sum of the scaled heights, one per source in input order, each an
\* integer nearest to source.height * targetWidth / source.width (when that
\* value is exactly halfway between two integers the double arithmetic
\* decides between them).
C7_HeightIsSumOfScaledHeights ==
  (stitchCall.pc = "returned" /\ stitchCall.targetWidth > 0) =>
    /\ stitchCall.canvas.width = stitchCall.targetWidth
    /\ stitchCall.canvas.height = SumHeights(stitchCall.scaledImages)
    /\ Len(stitchCall.scaledImages) = Len(stitchCall.images)
    /\ \A i \in 1..Len(stitchCall.images) :
         /\ stitchCall.scaledImages[i].img = stitchCall.images[i]
         /\ Nearest(stitchCall.scaledImages[i].height,
                    stitchCall.images[i].height * stitchCall.targetWidth,
                    stitchCall.images[i].width)

C7_Witness ==
  /\ stitchCall.pc = "returned"
  /\ stitchCall.images = <<ImageElement(800, 1600), ImageElement(1200, 1800)>>
  /\ stitchCall.targetWidth = 1000
  /\ stitchCall.canvas.height = 3500

\* C8: source i is drawn at x = 0, y = the sum of the scaled heights of the
\* sources before it, with width targetWidth and its own scaled height; the
\* slots follow each other in input order without gap or overlap and end at
\* the canvas height.
C8_SlotsStack ==
  stitchCall.pc = "returned" =>
    /\ Len(stitchCall.draws) = Len(stitchCall.images)
    /\ \A i \in 1..Len(stitchCall.draws) :
         /\ stitchCall.draws[i].img = stitchCall.images[i]
         /\ stitchCall.draws[i].x = 0
         /\ stitchCall.draws[i].width = stitchCall.targetWidth
         /\ stitchCall.draws[i].height = stitchCall.scaledImages[i].height
         /\ stitchCall.draws[i].y = SumHeights(SubSeq(stitchCall.scaledImages, 1, i - 1))
    /\ Consecutive(stitchCall.draws)
    /\ SumHeights(stitchCall.draws) = stitchCall.canvas.height

C8_Witness ==
  /\ stitchCall.pc = "returned"
  /\ Len(stitchCall.draws) = 2
  /\ stitchCall.draws[1].height > 0
  /\ stitchCall.draws[2].height > 0
  /\ stitchCall.draws[2].y = stitchCall.draws[1].height

(***************************************************************************)
(* Properties of App                                                       *)
(***************************************************************************)
\* C6: every call of processImage and stitchImages made by
\* handleStartProcessing passes targetWidth > 0, targetHeight > 0 and
\* sliceHeight > 0, after any sequence of uploads, edits of the number
\* fields, toggles, mode switches and advisor suggestions.
C6_PositiveArguments ==
  \A c \in calls :
    /\ c.targetWidth > 0
    /\ c.fn = "processImage" => (c.targetHeight > 0 /\ c.sliceHeight > 0)

StatusOf(imgs, id) == Lookup(imgs, id).status

\* the images that came from files (a mosaic composite has an id of its own)
FileIds(imgs) == {id \in Ids(imgs) : id > 0}

\* C9 as stated: the status of an image only moves pending -> processing ->
\* completed or error; no image leaves completed or error, none goes from
\* pending directly to completed or error.
C9_StatusOnlyForward ==
  [][\A id \in FileIds(images) \cap FileIds(images') :
       LET a == StatusOf(images, id)
           b == StatusOf(images', id)
       IN  \/ a = b
           \/ a = "pending" /\ b = "processing"
           \/ a = "processing" /\ b \in {"completed", "error"}]_vars

\* C9 (amended): an image enters the list pending; within a batch its status
\* moves from processing to completed or error; the start of a batch moves
\* every image of the list to processing, whatever its status (pending, or
\* completed or error from an earlier batch).  No other change of status
\* happens: none from pending directly to completed or error, none out of
\* completed or error except at the start of a later batch.
C9_StatusTransitions ==
  [][/\ \A id \in Ids(images) \cap Ids(images') :
          LET a == StatusOf(images, id)
              b == StatusOf(images', id)
          IN  \/ a = b
              \/ a = "processing" /\ b \in {"completed", "error"}
              \/ b = "processing" /\ ~isBatchProcessing /\ isBatchProcessing'
     /\ \A id \in FileIds(images') \ Ids(images) : StatusOf(images', id) = "pending"]_vars

C9_Witness ==
  /\ batch.mode = "individual"
  /\ batchCount = 2
  /\ \E i \in 1..Len(images) :
       /\ images[i].id > 0
       /\ images[i].status = "processing"
       /\ images[i].slices # <<>>

\* what processing the image alone gives: the slices of a call of
\* processImage on it that returns
OwnResults(opts, imgState) ==
  {SliceResults(SinglePipeline(opts, imgState, TRUE, nullCtx).slices, now) :
     nullCtx \in {n \in NullContexts :
                    SinglePipeline(opts, imgState, TRUE, n).status = "completed"},
     now \in 0..MaxClock}

\* C10: in individual mode the end of one image's pipeline, failed or not,
\* changes only that image: a failure sets its status to error and leaves
\* every other image of the list as it was; every image of the batch that is
\* still in the list carries its own outcome, completed with the slices of
\* its own call of processImage or error; and when the batch has ended every
\* image of the batch has had its outcome.
C10_FailureIsLocal ==
  /\ [](batch.mode = "individual" =>
          /\ \A id \in DOMAIN batch.outcomes \cap Ids(images) :
               LET img == Lookup(images, id)
                   out == batch.outcomes[id]
               IN  /\ img.status = out.status
                   /\ out.status \in {"completed", "error"}
                   /\ out.status = "completed" =>
                        /\ img.slices = out.slices
                        /\ img.slices \in OwnResults(batch.options, Lookup(batch.snapshot, id))
          /\ (~isBatchProcessing /\ batchCount > 0) =>
               DOMAIN batch.outcomes = Ids(batch.snapshot))
  /\ [][(batch.mode = "individual" /\ isBatchProcessing /\ batch'.loading # batch.loading) =>
          \E id \in batch.loading \ batch'.loading :
            /\ Len(images') = Len(images)
            /\ \A i \in 1..Len(images) :
                 IF images[i].id = id
                   THEN /\ images'[i].id = id
                        /\ images'[i].status = batch'.outcomes[id].status
                   ELSE images'[i] = images[i]]_vars

C10_Witness ==
  /\ batch.mode = "individual"
  /\ ~isBatchProcessing
  /\ \E i, j \in 1..Len(images) :
       /\ {images[i].id, images[j].id} \subseteq DOMAIN batch.outcomes
       /\ images[i].status = "error"
       /\ images[j].status = "completed"
       /\ images[j].slices # <<>>

\* C11: in an individual batch isBatchProcessing returns to false only when
\* every pipeline of the batch has ended: in the step that clears it, and as
\* long as it stays clear, no pipeline of the batch is outstanding and every
\* image the batch started is 'completed' or 'error', none 'processing',
\* also when a pipeline failed before the others ended.
C11_BusyUntilAllSettled ==
  /\ [][(isBatchProcessing /\ ~isBatchProcessing' /\ batch.mode = "individual")
          => /\ batch'.loading = {}
             /\ DOMAIN batch'.outcomes = Ids(batch.snapshot)]_vars
  /\ []((~isBatchProcessing /\ batchCount > 0 /\ batch.mode = "individual")
          => /\ batch.loading = {}
             /\ \A i \in 1..Len(images) :
                  images[i].id \in Ids(batch.snapshot)
                    => images[i].status \in {"completed", "error"})

C11_Witness ==
  /\ ~isBatchProcessing
  /\ batch.mode = "individual"
  /\ Len(batch.snapshot) = 2
  /\ Len(images) = 2
  /\ images[1].status = "error"
  /\ images[2].status = "completed"
  /\ images[2].slices # <<>>

\* the height stitchImages gives the canvas: the scaled heights of the sources
\* added up
RECURSIVE SumScaledHeights(_, _)
SumScaledHeights(imgs, targetWidth) ==
  IF imgs = <<>> THEN 0
  ELSE ScaledHeight(ImageElement(imgs[1].width, imgs[1].height), targetWidth)
       + SumScaledHeights(Tail(imgs), targetWidth)

\* the composite image of the running mosaic batch, if the list holds it
Composites == {i \in 1..Len(images) : batch.mode = "mosaic" /\ images[i].id = 0 - batchCount}

\* C12: the composite of a mosaic batch has width targetWidth and the height
\* of the stitched canvas, whatever options.targetHeight and keepAspectRatio
\* are, and with slicing enabled it has ceil(stitchedHeight / sliceHeight)
\* slices whose heights sum to the stitched height.
C12_MosaicSlicesCoverStitched ==
  \A i \in Composites :
    LET o == batch.options
        stitchedHeight == SumScaledHeights(batch.snapshot, o.targetWidth)
    IN  /\ images[i].width = o.targetWidth
        /\ images[i].height = stitchedHeight
        /\ \A k \in 1..Len(images[i].slices) : images[i].slices[k].width = o.targetWidth
        /\ o.enableSlicing =>
             /\ Len(images[i].slices) = CeilDiv(stitchedHeight, o.sliceHeight)
             /\ SumHeights(images[i].slices) = stitchedHeight

\* the heights of the slices of a list, in order
Heights(slices) == [i \in 1..Len(slices) |-> slices[i].height]

\* the example of C13: a 2000 x 4000 image in a batch with targetWidth 1000,
\* sliceHeight 1200, slicing and the aspect lock on, the shared targetHeight
\* being another one
ExampleOptions == [InitialOptions EXCEPT !.targetWidth = 1000, !.sliceHeight = 1200]

ExampleCurrentOptions == [ExampleOptions EXCEPT !.targetHeight = 2000]

ExampleImage == ImageState(1, ObjectUrl(1), 2000, 4000, "processing", <<>>)

\* the example gets target height 2000 and two slices of heights 1200 and 800
C13_Example ==
  /\ CurrentOptions(ExampleOptions, ExampleImage) = ExampleCurrentOptions
  /\ Heights(ProcessSingleLoaded(ExampleCurrentOptions, ExampleImage, {}).slices)
       = <<1200, 800>>

\* C13: in an individual batch every image is processed with the options of
\* the batch, but for targetHeight: with keepAspectRatio it is
\* Math.round(targetWidth / aspectRatio) of the image itself (an integer
\* nearest to targetWidth * height / width), without it the shared
\* options.targetHeight.  A 2000 x 4000 image at targetWidth 1000 and
\* sliceHeight 1200 with the aspect lock gets target height 2000 and two slices
\* of heights 1200 and 800.
C13_PerImageTargetHeight ==
  /\ C13_Example
  /\ [](\A c \in calls :
          (batch.mode = "individual" /\ c.fn = "processImage") =>
            /\ c.targetWidth = batch.options.targetWidth
            /\ c.sliceHeight = batch.options.sliceHeight
            /\ c.enableSlicing = batch.options.enableSlicing
            /\ c.exportFormat = batch.options.exportFormat
            /\ \E i \in 1..Len(batch.snapshot) :
                 c.source = ImageElement(batch.snapshot[i].width, batch.snapshot[i].height)
            /\ IF batch.options.keepAspectRatio
                 THEN /\ c.targetHeight = HeightForWidth(c.targetWidth, c.source)
                      /\ Nearest(c.targetHeight, c.targetWidth * c.source.height, c.source.width)
                 ELSE c.targetHeight = batch.options.targetHeight)

\* a wide image processed in a batch whose shared targetHeight is another one
C13_Witness ==
  /\ batch.mode = "individual"
  /\ batch.options.keepAspectRatio
  /\ \E c \in calls :
       /\ c.fn = "processImage"
       /\ c.source = ImageElement(1, 2)
       /\ c.targetWidth = 3
       /\ c.targetHeight = 6
       /\ batch.options.targetHeight = 1

\* the mosaic batch has ended in the catch of handleStartProcessing
MosaicFailed(b) == b.mode = "mosaic" /\ b.loading = {} /\ b.outcomes = <<[status |-> "error"]>>

\* C14: when a mosaic batch fails (a load fails, stitchImages or processImage
\* throws) no composite and no slice is added, isBatchProcessing returns to
\* false, and the failure shows in the state the UI renders: an image has
\* the status 'error'.
C14_MosaicFailureReported ==
  [][(isBatchProcessing /\ MosaicFailed(batch'))
       => /\ ~isBatchProcessing'
          /\ \A i \in 1..Len(images') :
               images'[i] \in {images[k] : k \in 1..Len(images)}
          /\ \E i \in 1..Len(images') : images'[i].status = "error"]_vars

\* the part of C14 that holds: the state after the failure is the state before
\* the settling but for isBatchProcessing
C14_MosaicFailureIsSilent ==
  [][(isBatchProcessing /\ MosaicFailed(batch'))
       => /\ ~isBatchProcessing'
          /\ images' = images
          /\ options' = options]_vars

\* an answer of the advisor that gives no usable slice height
Unusable(result) ==
  \/ result.kind \in {"throw", "null", "empty"}
  \/ result.kind = "result" /\ result.suggestedHeight <= 0

\* C15: when the advisor fails or its answer is unusable (suggestedHeight
\* missing, zero or negative), sliceHeight keeps its value, no image changes,
\* no pipeline is affected and isAnalyzing returns to false.
C15_UnusableAdviceIgnored ==
  [][(isAnalyzing /\ ~isAnalyzing' /\ Unusable(advice'))
       => /\ options' = options
          /\ images' = images
          /\ batch' = batch
          /\ isBatchProcessing' = isBatchProcessing]_vars

\* the part of C15 that holds: the answer of the advisor changes nothing but
\* sliceHeight, and not even that when it throws or gives null, no
\* suggestedHeight or 0
C15_AdviceChangesSliceHeightOnly ==
  [][(isAnalyzing /\ ~isAnalyzing')
       => /\ options' = [options EXCEPT !.sliceHeight = options'.sliceHeight]
          /\ (advice'.kind # "result" \/ advice'.suggestedHeight = 0) => options' = options
          /\ images' = images
          /\ batch' = batch
          /\ isBatchProcessing' = isBatchProcessing]_vars

\* the slices lie where the bands of slice height sliceHeight lie
BandLayout(slices, sliceHeight) ==
  \A k \in 1..Len(slices) :
    slices[k].kind = "slice" =>
      /\ slices[k].y = slices[k].index * sliceHeight
      /\ slices[k].height <= sliceHeight

\* C16: a batch takes the options of the click that started it, also when
\* an advisor request is pending at that click; every call of processImage of
\* the batch gets the sliceHeight of the click and the slices of every image
\* the batch completed lie on the bands of that sliceHeight, whatever the
\* advisor answers and whenever; the answer of the advisor changes no batch,
\* no image and no call.
C16_BatchKeepsItsSliceHeight ==
  /\ [][(~isBatchProcessing /\ isBatchProcessing')
          => batch'.options = options /\ batch'.analyzing = isAnalyzing]_vars
  /\ [][(isAnalyzing /\ ~isAnalyzing')
          => /\ batch' = batch
             /\ images' = images
             /\ calls' = calls
             /\ hung' = hung
             /\ isBatchProcessing' = isBatchProcessing]_vars
  /\ [](\A c \in calls :
          c.fn = "processImage" => c.sliceHeight = batch.options.sliceHeight)
  /\ [](batch.mode = "individual" =>
          \A id \in DOMAIN batch.outcomes \cap Ids(images) :
            Lookup(images, id).status = "completed"
              => BandLayout(Lookup(images, id).slices, batch.options.sliceHeight))
  /\ [](\A i \in Composites : BandLayout(images[i].slices, batch.options.sliceHeight))

\* the advisor was pending when the batch started and its answer changed
\* sliceHeight before the image of the batch was sliced on the bands of the
\* old one
C16_Witness ==
  /\ batch.analyzing
  /\ advice.kind = "result"
  /\ options.sliceHeight = advice.suggestedHeight
  /\ options.sliceHeight = 1
  /\ batch.options.sliceHeight = 1200
  /\ ~isBatchProcessing
  /\ \E i \in 1..Len(images) :
       /\ images[i].id \in DOMAIN batch.outcomes
       /\ images[i].status = "completed"
       /\ Heights(images[i].slices) = <<2>>

\* the download button is shown when an image is completed
DownloadShown(imgs) == \E i \in 1..Len(imgs) : imgs[i].status = "completed"

\* downloadAll: the files it emits, one per slice of every image of the list
DownloadAll(imgs) ==
  UNION {{[image |-> imgs[i].id, idx |-> k, slice |-> imgs[i].slices[k].id] :
            k \in 1..Len(imgs[i].slices)} : i \in 1..Len(imgs)}

\* C17: whenever downloadAll can be clicked, it emits no file for an image
\* whose status is 'error', also when an earlier batch had completed that
\* image.
C17_NoDownloadOfFailedImage ==
  DownloadShown(images) =>
    \A f \in DownloadAll(images) : StatusOf(images, f.image) # "error"

\* C18: an image whose pipeline got no 2D context for the resize canvas or
\* for the canvas of a band ends 'error', never 'completed' with a slice
\* missing: the slices of an image completed with slicing are numbered
\* 0, 1, ... and their heights add up to the target height of the image.
C18_NoCompletedImageLacksASlice ==
  batch.mode = "individual" =>
    \A id \in DOMAIN batch.outcomes \cap Ids(images) :
      LET img == Lookup(images, id)
          o   == CurrentOptions(batch.options, Lookup(batch.snapshot, id))
      IN  (img.status = "completed" /\ o.enableSlicing) =>
            /\ Indices(img.slices) = [i \in 1..Len(img.slices) |-> i - 1]
            /\ SumHeights(img.slices) = o.targetHeight

\* C19: the ids of the SliceResults of the list are pairwise distinct, within
\* an image and across images, also for pipelines that ran in the same
\* millisecond and for the 'full' results of a batch without slicing.
C19_SliceIdsDistinct ==
  \A i, j \in 1..Len(images) :
    \A k \in 1..Len(images[i].slices), l \in 1..Len(images[j].slices) :
      images[i].slices[k].id = images[j].slices[l].id => (i = j /\ k = l)

\* the part of C19 that holds: within one image the ids are distinct
C19_SliceIdsDistinctWithinImage ==
  \A i \in 1..Len(images) :
    \A k, l \in 1..Len(images[i].slices) :
      images[i].slices[k].id = images[i].slices[l].id => k = l

\* C20: a mosaic batch that succeeds replaces the list by one image: it is
\* 'completed', as wide as targetWidth and as high as the stitched canvas, its
\* originalUrl is the whole stitched canvas encoded, its slices are those
\* processImage made of the stitched canvas, in order, and no source image
\* remains.
C20_MosaicReplacesList ==
  [][(batch.mode = "mosaic" /\ isBatchProcessing
        /\ batch'.outcomes = <<[status |-> "completed"]>>)
       => LET o        == batch.options
              stitched == Canvas(o.targetWidth, SumScaledHeights(batch.snapshot, o.targetWidth))
          IN  /\ ~isBatchProcessing'
              /\ Len(images') = 1
              /\ images'[1].status = "completed"
              /\ images'[1].width = o.targetWidth
              /\ images'[1].height = stitched.height
              /\ images'[1].originalUrl = DataUrl(stitched, o.exportFormat)
              /\ \E nullCtx \in NullContexts, now \in 0..MaxClock :
                   images'[1].slices =
                     SliceResults(ProcessImage(stitched, MosaicOptions(o, stitched), nullCtx).slices, now)
              /\ \A k \in 2..Len(images'[1].slices) :
                   images'[1].slices[k - 1].index < images'[1].slices[k].index
              /\ images'[1].id \notin Ids(batch.snapshot) \cup Ids(images)]_vars

\* two sources have become one composite of their joint height
C20_Witness ==
  /\ batch.mode = "mosaic"
  /\ ~isBatchProcessing
  /\ Len(batch.snapshot) = 2
  /\ Len(images) = 1
  /\ images[1].id < 0
  /\ images[1].status = "completed"
  /\ images[1].height = 4
  /\ images[1].originalUrl = DataUrl(Canvas(1, 4), "jpeg")
  /\ Heights(images[1].slices) = <<4>>

(***************************************************************************)
(* The empty image list                                                    *)
(***************************************************************************)
\* stitchImages([], targetWidth, exportFormat), for the widths and formats the
\* UI can hold: a canvas of that width and of height 0, with nothing drawn
EmptyStitch ==
  \A w \in 0..MaxInput, f \in ExportFormats :
    /\ StitchImages(<<>>, w, f, TRUE).pc = "returned"
    /\ StitchImages(<<>>, w, f, TRUE).canvas = Canvas(w, 0)
    /\ StitchImages(<<>>, w, f, TRUE).draws = <<>>

\* C21: stitchImages of an empty source list returns a canvas of height 0,
\* and handleStartProcessing called with an empty image list changes nothing
\* of the component's state (isBatchProcessing stays false, no image, status,
\* option or batch changes) and calls neither stitchImages nor processImage.
C21_EmptyListIsNoOp ==
  /\ EmptyStitch
  /\ [][(HandleStartProcessing /\ Len(images) = 0) =>
          /\ UNCHANGED <<images, options, isBatchProcessing, isAnalyzing, uploads,
                         batch, calls, hung, advice, clock>>
          /\ ~isBatchProcessing'
          /\ calls' = calls]_vars

\* the handler was called with an empty list before any batch was started
C21_Witness ==
  /\ Len(images) = 0
  /\ batchCount > 0
  /\ batch = NoBatch
  /\ ~isBatchProcessing
  /\ calls = {}

(***************************************************************************)
(* Concurrent pipelines                                                    *)
(***************************************************************************)
\* the index and the height of every slice of a list
Layout(slices) == [i \in 1..Len(slices) |-> <<slices[i].index, slices[i].height>>]

\* what processImage gives for the image alone, called with the options
\* processSingle derives for it (one layout for each way the canvases can get
\* their contexts)
AloneLayouts(opts, imgState) ==
  {Layout(ProcessImage(ImageElement(imgState.width, imgState.height),
                       CurrentOptions(opts, imgState), nullCtx).slices) :
     nullCtx \in {n \in NullContexts :
                    ProcessImage(ImageElement(imgState.width, imgState.height),
                                 CurrentOptions(opts, imgState), n).pc = "returned"}}

\* C22: in individual mode, whatever the order in which the pipelines of a
\* batch and their state updates ran, when the batch has ended every image
\* of the batch still in the list carries the outcome of its own pipeline and
\* of no other: its status is that outcome's status, and when completed its
\* slices (count, indices, heights) are what processImage gives for that
\* image alone with the options of the batch.
C22_ResultIndependentOfInterleaving ==
  (batch.mode = "individual" /\ ~isBatchProcessing /\ batch.snapshot # <<>>) =>
    \A i \in 1..Len(images) :
      images[i].id \in Ids(batch.snapshot) =>
        /\ images[i].id \in DOMAIN batch.outcomes
        /\ images[i].status = batch.outcomes[images[i].id].status
        /\ images[i].status = "completed" =>
             /\ images[i].slices = batch.outcomes[images[i].id].slices
             /\ Layout(images[i].slices)
                  \in AloneLayouts(batch.options, Lookup(batch.snapshot, images[i].id))

\* two images of different sizes, both completed with slices, the second
\* having ended in an earlier millisecond than the first
C22_Witness ==
  /\ batch.mode = "individual"
  /\ ~isBatchProcessing
  /\ Len(images) = 2
  /\ Ids(batch.snapshot) = {images[1].id, images[2].id}
  /\ images[1].status = "completed"
  /\ images[2].status = "completed"
  /\ images[1].slices # <<>>
  /\ images[2].slices # <<>>
  /\ images[1].height # images[2].height
  /\ images[2].slices[1].id[2] < images[1].slices[1].id[2]

(***************************************************************************)
(* Termination of the slicing loop                                         *)
(***************************************************************************)
\* processImage runs on the one thread of the page without an await between
\* its statements: once called, its next statement is always executed
SpecImageLive ==
  /\ SpecImage
  /\ WF_procCall(ProcessImageBegin)
  /\ WF_procCall(ProcessImageLoop)
  /\ WF_procCall(ProcessImageReturn)

PositiveHeights(c) == c.options.targetHeight > 0 /\ c.options.sliceHeight > 0

\* every iteration moves currentY strictly forward and not beyond targetHeight
LoopAdvances ==
  [][(procCall.pc = "loop" /\ procCall'.pc = "loop" /\ PositiveHeights(procCall)) =>
       /\ procCall'.currentY > procCall.currentY
       /\ procCall'.currentY <= procCall.options.targetHeight
       /\ procCall'.index = procCall.index + 1]_vars

\* the loop has ended normally after ceil(targetHeight / sliceHeight)
\* iterations, with currentY at targetHeight
LoopDone(c) ==
  /\ c.pc = "returned"
  /\ PositiveHeights(c)
  /\ c.index = CeilDiv(c.options.targetHeight, c.options.sliceHeight)
  /\ c.currentY = c.options.targetHeight

\* C23: for every positive targetHeight and sliceHeight the slicing loop of
\* processImage terminates after exactly ceil(targetHeight / sliceHeight)
\* iterations with currentY equal to targetHeight; currentY strictly
\* increases at each iteration and never exceeds targetHeight.
C23_LoopTerminates ==
  /\ LoopAdvances
  /\ []((procCall.pc = "loop" /\ PositiveHeights(procCall)) => <>LoopDone(procCall))

\* what holds of the code: the same, for the calls whose targetWidth is
\* positive as well (the draw of a band from a resize canvas of width 0 throws)
C23_LoopTerminatesForPositiveWidth ==
  /\ LoopAdvances
  /\ []((procCall.pc = "loop" /\ PositiveHeights(procCall) /\ procCall.options.targetWidth > 0)
          => <>LoopDone(procCall))
  /\ []((procCall.pc = "loop" /\ PositiveHeights(procCall))
          => <>(procCall.pc \in {"returned", "threw"}))

(***************************************************************************)
(* The end of a batch                                                      *)
(***************************************************************************)
\* every load of a batch settles (onload or onerror), and the continuation
\* of a pipeline whose load has settled is run by the event loop
SpecLive ==
  /\ Spec
  /\ WF_vars(ProcessSingleSettle)
  /\ WF_vars(MosaicSettle)

\* C24: every batch that is started eventually ends: in both modes, when
\* every image load settles, isBatchProcessing returns to false after
\* handleStartProcessing set it, whatever the pipelines' outcomes and
\* whatever options the UI held at the start.
C24_BatchEventuallyEnds == isBatchProcessing ~> ~isBatchProcessing

\* what holds of the code: a batch started without slicing or with a
\* positive sliceHeight ends, as long as the component is mounted
C24_ValidBatchEventuallyEnds ==
  (isBatchProcessing /\ (~batch.options.enableSlicing \/ batch.options.sliceHeight > 0))
    ~> (~isBatchProcessing \/ RenderThrows(previewData, images))

(***************************************************************************)
(* The white background of jpeg                                            *)
(***************************************************************************)
\* the first operation the log holds for the canvas of entry k
FirstOp(log, k) ==
  log[CHOOSE j \in 1..k : log[j].canvas = log[k].canvas
                          /\ \A i \in 1..(j - 1) : log[i].canvas # log[k].canvas]

\* the canvas number n of a call of processImage
CanvasOf(c, n) ==
  IF n = 0 THEN c.resizeCanvas ELSE Canvas(c.options.targetWidth, c.bands[n].height)

Fills(log) == {k \in 1..Len(log) : log[k].op = "fillRect"}

Encodings(log) == {k \in 1..Len(log) : log[k].op = "toDataURL"}

\* C25: for jpeg every canvas of processImage and stitchImages that is drawn
\* on or encoded was first filled (with white) over its full width and
\* height, once; for png no canvas is filled.  Every slice returned is the
\* encoding of such a canvas.
C25_WhiteBeforeDrawAndEncode ==
  /\ \A k \in 1..Len(procCall.log) :
       IF procCall.options.exportFormat = "jpeg"
         THEN /\ FirstOp(procCall.log, k) =
                   CanvasOp(procCall.log[k].canvas, "fillRect",
                            CanvasOf(procCall, procCall.log[k].canvas).width,
                            CanvasOf(procCall, procCall.log[k].canvas).height)
              /\ procCall.log[k].op = "fillRect" => FirstOp(procCall.log, k) = procCall.log[k]
                   /\ \A j \in 1..(k - 1) : procCall.log[j] # procCall.log[k]
         ELSE procCall.log[k].op # "fillRect"
  /\ procCall.pc \in {"loop", "returned"} =>
       /\ Cardinality(Encodings(procCall.log)) = Len(procCall.slices)
       /\ procCall.log # <<>>
  /\ \A k \in 1..Len(stitchCall.log) :
       IF stitchCall.exportFormat = "jpeg"
         THEN /\ FirstOp(stitchCall.log, k) =
                   CanvasOp(0, "fillRect", stitchCall.canvas.width, stitchCall.canvas.height)
              /\ stitchCall.log[k].op = "fillRect" => k = 1
         ELSE stitchCall.log[k].op # "fillRect"
  /\ stitchCall.pc \in {"draw", "returned"} =>
       Len(stitchCall.log) = Len(stitchCall.draws) + Cardinality(Fills(stitchCall.log))

\* a jpeg call that returned two slices: three canvases, each filled first
C25_Witness ==
  /\ procCall.pc = "returned"
  /\ procCall.options.exportFormat = "jpeg"
  /\ Len(procCall.slices) = 2
  /\ Cardinality(Fills(procCall.log)) = 3

(***************************************************************************)
(* The size estimate                                                       *)
(***************************************************************************)
\* the canvases measured: every export format, every encoded length
InitSize ==
  /\ InitApp
  /\ procCall = IdleCall
  /\ stitchCall = IdleStitch
  /\ \E f \in ExportFormats, n \in 0..MaxBytes : sizeCall = SizeCall(f, n)

\* const sizeInBytes = getBase64Size(dataUrl)
GetBase64SizeStep ==
  /\ sizeCall.pc = "encoded"
  /\ sizeCall' = [sizeCall EXCEPT !.pc = "sized", !.sizeInBytes = GetBase64Size(sizeCall.dataUrl)]
  /\ UNCHANGED <<procCall, stitchCall, appVars>>

\* sizeLabel: formatBytes(sizeInBytes)
FormatBytesStep ==
  /\ sizeCall.pc = "sized"
  /\ sizeCall' = [sizeCall EXCEPT !.pc = "labelled", !.sizeLabel = FormatBytes(sizeCall.sizeInBytes)]
  /\ UNCHANGED <<procCall, stitchCall, appVars>>

NextSize ==
  \/ GetBase64SizeStep
  \/ FormatBytesStep

SpecSize == InitSize /\ [][NextSize]_vars

\* the part of a data URL after its first comma
Payload(text) ==
  IF Positions(text, ",") = {} THEN <<>>
  ELSE SubSeq(text, Least(Positions(text, ",")) + 1, Len(text))

\* the '=' characters of a text
PaddingOf(text) == Cardinality(Positions(text, "="))

\* C26: getBase64Size returns floor(3 * L / 4) for a payload of length L
\* after the first comma of the data URL and 0 when there is no payload;
\* for a padded base64 payload (L a multiple of 4 with p trailing '=', p in
\* 0..2) the estimate is not below the decoded byte count 3L/4 - p and not
\* more than 2 above it; formatBytes(0) is '0 Bytes'.
C26_SizeEstimate ==
  sizeCall.pc \in {"sized", "labelled"} =>
    LET L == Len(Payload(sizeCall.dataUrl))
        p == PaddingOf(Payload(sizeCall.dataUrl))
    IN  /\ sizeCall.sizeInBytes = (3 * L) \div 4
        /\ L = 0 => sizeCall.sizeInBytes = 0
        /\ L % 4 = 0 /\ p \in 0..2
        /\ sizeCall.bytes = (3 * L) \div 4 - p
        /\ sizeCall.sizeInBytes >= sizeCall.bytes
        /\ sizeCall.sizeInBytes - sizeCall.bytes <= 2
        /\ (sizeCall.pc = "labelled" /\ sizeCall.sizeInBytes = 0) =>
             sizeCall.sizeLabel = <<"0", " ", "B", "y", "t", "e", "s">>
        /\ (sizeCall.pc = "labelled" /\ sizeCall.sizeInBytes > 0) =>
             sizeCall.sizeLabel # <<"0", " ", "B", "y", "t", "e", "s">>

\* an encoding with two padding characters, measured 2 bytes above its
\* decoded length and labelled
C26_Witness ==
  /\ sizeCall.pc = "labelled"
  /\ PaddingOf(sizeCall.dataUrl) = 2
  /\ sizeCall.sizeInBytes = sizeCall.bytes + 2
  /\ sizeCall.bytes > 9
  /\ sizeCall.sizeLabel = Decimal(sizeCall.sizeInBytes) \o <<" ", "B", "y", "t", "e", "s">>

(***************************************************************************)
(* The preview                                                             *)
(***************************************************************************)
\* the slice list lacks no band from its first slice on: the indices count
\* from 0 and every band starts where the one before ends
NoBandSkipped(slices) ==
  /\ slices # <<>>
  /\ slices[1].index = 0
  /\ slices[1].y = 0
  /\ \A i \in 1..(Len(slices) - 1) :
       /\ slices[i + 1].index = slices[i].index + 1
       /\ slices[i + 1].y = slices[i].y + slices[i].height

\* C27: whenever the preview is open on an image of the list,
\* previewData.sliceIndex is a position of that image's slice list
\* (0 <= sliceIndex < slices.length), after any sequence of opening,
\* navigating, re-processing, removeImage and clearAll.  Stated for the
\* images whose slice list is whole, so that no band dropped for want of a
\* canvas context is what shortens the list.
C27_PreviewIndexValid ==
  (PreviewShown(previewData, images)
     /\ NoBandSkipped(Lookup(images, previewData.imageId).slices))
    => PreviewSliceDefined(previewData, images)

\* what holds of the code: opening and navigating give a valid index, and
\* removeImage and clearAll leave none open on a missing image; only a step
\* that replaces the slices of the previewed image can invalidate the index
C27_OnlyReprocessingInvalidates ==
  [][(~RenderThrows(previewData, images) /\ RenderThrows(previewData', images'))
       => /\ previewData' = previewData
          /\ isBatchProcessing
          /\ previewData.imageId \in batch.loading
          /\ batch'.loading = batch.loading \ {previewData.imageId}]_vars

\* a session in which one 1x2 image was uploaded, the slice height set to 1
\* and a batch run: the image is completed with two slices
SlicedOptions == [InitialOptions EXCEPT !.targetWidth = 1, !.targetHeight = 2, !.sliceHeight = 1]

SlicedImage(status, slices) == ImageState(1, ObjectUrl(1), 1, 2, status, slices)

AfterFirstBatch ==
  /\ images = <<SlicedImage("completed",
                  Outcome(SinglePipeline(SlicedOptions, SlicedImage("pending", <<>>), TRUE, {}), 0).slices)>>
  /\ options = SlicedOptions
  /\ isBatchProcessing = FALSE
  /\ isAnalyzing = FALSE
  /\ uploads = {}
  /\ batch = [mode |-> "individual", options |-> SlicedOptions,
              snapshot |-> <<SlicedImage("pending", <<>>)>>, loading |-> {},
              outcomes |-> (1 :> Outcome(SinglePipeline(SlicedOptions, SlicedImage("pending", <<>>), TRUE, {}), 0)),
              analyzing |-> FALSE]
  /\ calls = {SinglePipeline(SlicedOptions, SlicedImage("pending", <<>>), TRUE, {}).args}
  /\ hung = FALSE
  /\ nextId = 2
  /\ batchCount = 1
  /\ advice = NoAdvice
  /\ clock = 0
  /\ previewData = NoPreview

\* the same session with two operations of its budget left
InitSecondBatch ==
  /\ AfterFirstBatch
  /\ ops = MaxOps - 2
  /\ procCall = IdleCall
  /\ stitchCall = IdleStitch
  /\ sizeCall = IdleSize

SpecSecondBatch == InitSecondBatch /\ [][Next]_vars

\* Spec reaches that state with its third operation
ReachedAfterFirstBatch == AfterFirstBatch /\ ops = 3

(***************************************************************************)
(* The predicted output count                                              *)
(***************************************************************************)
\* the batch b has ended and every pipeline of it completed
BatchSucceeded(b) ==
  /\ b.loading = {}
  /\ \A k \in DOMAIN b.outcomes : b.outcomes[k].status = "completed"

RECURSIVE ProducedByEach(_, _)
\* the slices the pipelines of an individual batch produced, over the images
\* the batch was started with
ProducedByEach(snapshot, outcomes) ==
  IF snapshot = <<>> THEN 0
  ELSE Len(outcomes[snapshot[1].id].slices) + ProducedByEach(Tail(snapshot), outcomes)

\* the slices of a canvas of the given height lack no band
WholeHeight(slices, height, opts) == opts.enableSlicing => SumHeights(slices) = height

\* no pipeline of the individual batch b dropped a band
EachWhole(b) ==
  \A i \in 1..Len(b.snapshot) :
    WholeHeight(b.outcomes[b.snapshot[i].id].slices,
                CurrentOptions(b.options, b.snapshot[i]).targetHeight, b.options)

\* C28: the predicted output count shown when the start button is clicked
\* (combinedMetrics.slices for the images and options of the click) equals
\* the number of slices the batch produces when every pipeline of it
\* completes: in individual mode the sum of the slices of each image, in
\* mosaic mode the slices of the composite.  Stated for a positive
\* targetWidth and sliceHeight and for pipelines that dropped no band.
C28_PredictionEqualsOutput ==
  [][(/\ isBatchProcessing
      /\ ~isBatchProcessing'
      /\ BatchSucceeded(batch')
      /\ batch.options.targetWidth > 0
      /\ batch.options.sliceHeight > 0
      /\ IF batch.mode = "mosaic"
           THEN WholeHeight(images'[1].slices, images'[1].height, batch.options)
           ELSE EachWhole(batch'))
     => CombinedMetricsSlices(batch.snapshot, batch.options)
          = Finite(IF batch.mode = "mosaic" THEN Len(images'[1].slices)
                   ELSE ProducedByEach(batch.snapshot, batch'.outcomes))]_vars

(***************************************************************************)
(* Images removed during a batch                                           *)
(***************************************************************************)
\* the images of the running batch that removeImage or clearAll have taken
\* from the list since the batch was started
RemovedInFlight == Ids(batch.snapshot) \ Ids(images)

\* the list holds the composite of the current batch, which the mosaic
\* branch stitches from every image the batch was started with
HoldsComposite(imgs) == \E i \in 1..Len(imgs) : imgs[i].id = 0 - batchCount

\* C29: an image removed from the list while a batch is in flight never
\* comes back: no step of the batch puts a removed image into the list
\* again, and when the batch ends the list holds no result computed from a
\* removed image, in individual mode and in mosaic mode.
C29_RemovedNeverComesBack ==
  [][isBatchProcessing =>
       /\ Ids(images') \cap RemovedInFlight = {}
       /\ (~isBatchProcessing' /\ RemovedInFlight # {}) => ~HoldsComposite(images')]_vars

\* the part of C29 that holds: in individual mode no step of a batch puts a
\* removed image into the list again, whatever its pipeline ends with
C29_IndividualRemovedStaysRemoved ==
  [][(isBatchProcessing /\ batch.mode = "individual") =>
       /\ Ids(images') \cap RemovedInFlight = {}
       /\ ~HoldsComposite(images')]_vars

(***************************************************************************)
(* The options after the first upload                                      *)
(***************************************************************************)
\* the files picked are all the user has done so far, and every one of them
\* has loaded
OnlyUploadsDone == ops = nextId - 1 /\ uploads = {}

\* options.targetWidth and options.targetHeight are the size of images[0]
OptionsOfFirstImage ==
  /\ options.targetWidth = images[1].width
  /\ options.targetHeight = images[1].height

\* C30: after several files are uploaded into an empty session, whatever
\* the order in which their loads complete, options.targetWidth and
\* options.targetHeight are the width and height of the first image of the
\* list: later loads of the upload do not overwrite them.
C30_OptionsFollowFirstImage ==
  (OnlyUploadsDone /\ Len(images) >= 2) => OptionsOfFirstImage

\* the part of C30 that holds: after one file is uploaded into an empty
\* session, the options are the size of that image
C30_SingleUploadInitialisesOptions ==
  (OnlyUploadsDone /\ Len(images) = 1) => OptionsOfFirstImage

====
